---------------------------- MODULE Spec2Model ----------------------------
(***************************************************************************)
(* A model of evaluateLisp (src/src/lib/examples.ts, lines 26-1030): the   *)
(* lexer, the reader, the evaluator with its special forms and built-in    *)
(* operators, and the driver loop over the top-level forms.                *)
(*                                                                         *)
(* A source text is a sequence of one-character strings.  A JavaScript     *)
(* string value is kept as its sequence of characters; Text turns it into  *)
(* a TLA+ string where the code uses it as an object key or as a message.  *)
(* A JavaScript array lives in `heap` and a value refers to it by index,   *)
(* so aliasing and in-place mutation are those of the code.  An            *)
(* environment object lives in `frames`.                                   *)
(***************************************************************************)
EXTENDS Integers, Sequences, FiniteSets, TLC

VARIABLES
  program,        \* the source text handed to evaluateLisp
  inputProvider,  \* the optional callback: [present, lines]
  pc,             \* where the driver stands
  i,              \* tokenize: the read position (0-based, as in the code)
  tokens,         \* tokenize: the tokens pushed so far
  currentTokens,  \* the driver's copy of the tokens, consumed by parse
  heap,           \* the arrays created so far (AST lists and list values)
  frames,         \* the environment objects: env, globalEnv, local copies
  outputBuffer,   \* the output lines
  reads,          \* how many times the input provider was called
  fnCount,        \* how many closures were created (their identities)
  parsed,         \* the top-level form read last
  result,         \* the value of the top-level form evaluated last
  error,          \* the message of the error thrown, "" when none
  returned        \* the text evaluateLisp returned

vars == <<program, inputProvider, pc, i, tokens, currentTokens, heap, frames,
          outputBuffer, reads, fnCount, parsed, result, error, returned>>

(***************************************************************************)
(* Bounds of the model.                                                    *)
(***************************************************************************)
\* Closure calls and loop iterations one top-level form may take before the
\* model reports it as still running.
MaxSteps == 12

\* The longest of the source texts that are enumerated character by
\* character for the lexer.
MaxTextLen == 3

(***************************************************************************)
(* Characters and strings.                                                 *)
(***************************************************************************)
RECURSIVE Text(_)
\* The JavaScript string with the characters cs, as a TLA+ string.
Text(cs) == IF cs = <<>> THEN "" ELSE cs[1] \o Text(Tail(cs))

\* /\s/ on the characters a source text of the model may hold.
IsSpace(c) == c \in {" ", "\t", "\n", "\r", "\f"}

\* /[\s()'"]/ : the characters that end an atom.
IsDelimiter(c) == IsSpace(c) \/ c \in {"(", ")", "'", "\""}

\* str.substring(a, b) for 0 <= a <= b, clipped to the string as the host does.
Substring(str, a, b) ==
  LET hi == IF b > Len(str) THEN Len(str) ELSE b
  IN  IF a >= hi THEN <<>> ELSE SubSeq(str, a + 1, hi)

(***************************************************************************)
(* tokenize, lines 34-105.                                                 *)
(***************************************************************************)
RECURSIVE skipWhitespace(_, _)
skipWhitespace(str, k) ==
  IF k < Len(str) /\ IsSpace(str[k + 1]) THEN skipWhitespace(str, k + 1) ELSE k

RECURSIVE SkipToEndOfLine(_, _)
\* lines 51-53
SkipToEndOfLine(str, k) ==
  IF k < Len(str) /\ str[k + 1] # "\n" THEN SkipToEndOfLine(str, k + 1) ELSE k

RECURSIVE ScanString(_, _)
\* lines 76-82: from j, the position of the closing double quote or Len(str).
ScanString(str, j) ==
  IF j < Len(str) /\ str[j + 1] # "\""
  THEN IF str[j + 1] = "\\" /\ j + 1 < Len(str)
       THEN ScanString(str, j + 2)
       ELSE ScanString(str, j + 1)
  ELSE j

\* an atom scan that does not move
ScanAtomNone(str, j) == j

RECURSIVE ScanAtom(_, _)
\* lines 94-96
ScanAtom(str, j) ==
  IF j < Len(str) /\ ~IsDelimiter(str[j + 1]) THEN ScanAtom(str, j + 1) ELSE j

\* line 50: the test that guards the comment branch.
IsCommentStart(str, k) == Substring(str, k, k + 2) = <<";">>

\* One iteration of the loop of lines 45-102, entered with k < Len(str):
\* the new position, the new token list and the error thrown ("" when none).
TokenizeIteration(str, k, toks) ==
  LET p == skipWhitespace(str, k)
  IN  IF p >= Len(str) THEN [i |-> p, tokens |-> toks, error |-> ""]
      ELSE IF IsCommentStart(str, p)
        THEN [i |-> SkipToEndOfLine(str, p), tokens |-> toks, error |-> ""]
      ELSE IF str[p + 1] = "'"
        THEN [i |-> p + 1, tokens |-> Append(toks, <<"'">>), error |-> ""]
      ELSE IF str[p + 1] \in {"(", ")"}
        THEN [i |-> p + 1, tokens |-> Append(toks, <<str[p + 1]>>), error |-> ""]
      ELSE IF str[p + 1] = "\""
        THEN LET j == ScanString(str, p + 1)
             IN  IF j < Len(str)
                 THEN [i |-> j + 1,
                       tokens |-> Append(toks, Substring(str, p, j + 1)),
                       error |-> ""]
                 ELSE [i |-> p, tokens |-> toks,
                       error |-> "Unterminated string literal"]
      ELSE LET j == ScanAtom(str, p)
           IN  IF j > p
               THEN [i |-> j, tokens |-> Append(toks, Substring(str, p, j)),
                     error |-> ""]
               ELSE [i |-> p, tokens |-> toks, error |-> ""]

(***************************************************************************)
(* Values.  typeof and Array.isArray of the host are read off the tag t.   *)
(* The fields differ from tag to tag, so two values of different types are *)
(* never compared field by field.                                          *)
(***************************************************************************)
Num(n) == [t |-> "number", n |-> n]
\* The host's NaN, the result of (/ 0 0).
NaN == [t |-> "number", nan |-> TRUE]
\* A number that is no integer (a fraction, an infinity): the model keeps no
\* more of it than its type.
NonInteger == [t |-> "number", other |-> TRUE]
Str(cs) == [t |-> "string", s |-> cs]
Bool(b) == [t |-> "boolean", b |-> b]
Null == [t |-> "null"]
Undefined == [t |-> "undefined"]
\* The array heap[r].
Arr(r) == [t |-> "array", r |-> r]
\* A function of createEnvironment; name is the key it was created under.
Builtin(name) == [t |-> "function", builtin |-> name]
\* A member of Object.prototype, found by `in` on every environment object.
HostMember(name) == [t |-> "function", host |-> name]
\* The function created by defun (lines 610-625) or lambda (lines 778-793).
Closure(id, kind, params, body, env) ==
  [t |-> "function", id |-> id, kind |-> kind, params |-> params,
   body |-> body, env |-> env]

IsNumber(v) == v.t = "number"
IsInt(v) == v.t = "number" /\ "n" \in DOMAIN v
IsString(v) == v.t = "string"
IsArray(v) == v.t = "array"
IsFunction(v) == v.t = "function"

\* The host's ToBoolean: what `x ? a : b`, `if (x)`, `!!x` and `x || y` test.
Truthy(v) ==
  CASE v.t = "boolean" -> v.b
    [] v.t = "number" -> IF IsInt(v) THEN v.n # 0 ELSE v # NaN
    [] v.t = "string" -> v.s # <<>>
    [] v.t \in {"null", "undefined"} -> FALSE
    [] OTHER -> TRUE

\* The host's ===.
StrictEquals(a, b) == a # NaN /\ a = b

Digits == <<"0", "1", "2", "3", "4", "5", "6", "7", "8", "9">>
IsDigit(c) == \E d \in 1..10 : Digits[d] = c
DigitValue(c) == (CHOOSE d \in 1..10 : Digits[d] = c) - 1

RECURSIVE NatOf(_, _)
\* The decimal value of the digits cs, after the value acc of those before.
NatOf(cs, acc) ==
  IF cs = <<>> THEN acc ELSE NatOf(Tail(cs), 10 * acc + DigitValue(cs[1]))

\* Whether Number(token) is a number for a token of the model: an optional
\* sign and decimal digits.  (The host also reads fractions, exponents and
\* radix prefixes; the source texts of the model hold none.)
IsNumeral(tok) ==
  LET body == IF tok # <<>> /\ tok[1] \in {"-", "+"} THEN Tail(tok) ELSE tok
  IN  body # <<>> /\ \A k \in 1..Len(body) : IsDigit(body[k])

\* Number(token) for a numeral.
NumberOf(tok) ==
  IF tok[1] = "-" THEN 0 - NatOf(Tail(tok), 0)
  ELSE IF tok[1] = "+" THEN NatOf(Tail(tok), 0)
  ELSE NatOf(tok, 0)

RECURSIVE NatChars(_)
NatChars(n) ==
  IF n < 10 THEN <<Digits[n + 1]>>
  ELSE Append(NatChars(n \div 10), Digits[(n % 10) + 1])

\* String(v) for a number.
NumberChars(v) ==
  IF v = NaN THEN <<"N", "a", "N">>
  ELSE IF ~IsInt(v) THEN <<"?">>
  ELSE IF v.n < 0 THEN <<"-">> \o NatChars(0 - v.n)
  ELSE NatChars(v.n)

(***************************************************************************)
(* parse, lines 108-142.  A list it reads is a new array of the heap.      *)
(***************************************************************************)
ParseOk(v, toks, hp) == [v |-> v, tokens |-> toks, heap |-> hp, error |-> ""]
ParseFail(msg, toks, hp) ==
  [v |-> Undefined, tokens |-> toks, heap |-> hp, error |-> msg]

\* lines 133-140: the value of a token that is neither a parenthesis nor a
\* quote.
ParseAtom(token) ==
  IF token[1] = "\"" /\ token[Len(token)] = "\""
  THEN Str(Substring(token, 1, Len(token) - 1))
  ELSE IF token = <<"t">> THEN Bool(TRUE)
  ELSE IF IsNumeral(token) THEN Num(NumberOf(token))
  ELSE Str(token)

RECURSIVE parse(_, _), ParseList(_, _, _)
\* lines 123-130: the elements read so far are acc.
ParseList(toks, hp, acc) ==
  IF toks # <<>> /\ toks[1] = <<")">>
  THEN ParseOk(Arr(Len(hp) + 1), Tail(toks), Append(hp, acc))
  ELSE IF toks = <<>>
  THEN ParseFail("Missing closing parenthesis", toks, hp)
  ELSE LET r == parse(toks, hp)
       IN  IF r.error # "" THEN r
           ELSE ParseList(r.tokens, r.heap, Append(acc, r.v))

parse(toks, hp) ==
  IF toks = <<>> THEN ParseFail("Unexpected EOF", toks, hp)
  ELSE LET token == toks[1]
           rest == Tail(toks)
       IN  IF token = <<"'">>
           THEN LET r == parse(rest, hp)
                IN  IF r.error # "" THEN r
                    ELSE ParseOk(Arr(Len(r.heap) + 1), r.tokens,
                                 Append(r.heap,
                                        <<Str(<<"q", "u", "o", "t", "e">>), r.v>>))
           ELSE IF token = <<"(">> THEN ParseList(rest, hp, <<>>)
           ELSE IF token = <<")">>
           THEN ParseFail("Unexpected closing parenthesis", rest, hp)
           ELSE IF token = <<"n", "i", "l">>
           THEN ParseOk(Arr(Len(hp) + 1), rest, Append(hp, <<>>))
           ELSE ParseOk(ParseAtom(token), rest, hp)

(***************************************************************************)
(* The interpreter's mutable state while one form is evaluated, and the    *)
(* outcome of an evaluation: the value, the state after it and the message *)
(* of the error thrown ("" when none).                                     *)
(***************************************************************************)
\* frames[RootEnv] is the object createEnvironment returns (line 1016), the
\* environment of the top-level forms; frames[GlobalEnv] is globalEnv.
RootEnv == 1
GlobalEnv == 2

\* The outcome of a form that has not finished within MaxSteps.
StillRunning == "(still running)"
\* The outcome of an operation on a number the model does not represent.
Unmodelled == "(outside the model)"

EvOk(v, m) == [v |-> v, m |-> m, e |-> ""]
EvFail(msg, m) == [v |-> Undefined, m |-> m, e |-> msg]

\* `result !== undefined ? result : null`
OrNull(v) == IF v = Undefined THEN Null ELSE v

\* arr[k] of the host for the 0-based index k - 1: undefined past the end.
At(seq, k) == IF k >= 1 /\ k <= Len(seq) THEN seq[k] ELSE Undefined

\* The names every object inherits from Object.prototype: `key in env` holds
\* for them in every environment.
ObjectPrototypeKeys ==
  {"constructor", "hasOwnProperty", "isPrototypeOf", "propertyIsEnumerable",
   "toLocaleString", "toString", "valueOf", "__proto__", "__defineGetter__",
   "__defineSetter__", "__lookupGetter__", "__lookupSetter__"}

\* `key in frame`, lines 352, 372, 576.
HasProperty(frame, key) == key \in DOMAIN frame \/ key \in ObjectPrototypeKeys

\* `frame[key]` when `key in frame`.
GetProperty(frame, key) ==
  IF key \in DOMAIN frame THEN frame[key] ELSE HostMember(key)

\* `frame[key] = v`
Put(frame, key, v) ==
  [k \in DOMAIN frame \cup {key} |-> IF k = key THEN v ELSE frame[k]]

SetVar(m, env, key, v) == [m EXCEPT !.frames[env] = Put(@, key, v)]

\* `{ ...env }`: a new object with the own properties of frames[env]; its
\* place in frames is Len(frames) + 1.
CopyFrame(m, env) == [m EXCEPT !.frames = Append(@, @[env])]

\* A new array holding cell; its place in the heap is Len(heap) + 1.
Alloc(m, cell) == [m EXCEPT !.heap = Append(@, cell)]

RECURSIVE JoinChars(_, _)
\* parts.join(sep) on character sequences.
JoinChars(parts, sep) ==
  IF parts = <<>> THEN <<>>
  ELSE IF Len(parts) = 1 THEN parts[1]
  ELSE parts[1] \o sep \o JoinChars(Tail(parts), sep)

RECURSIVE formatLispValue(_, _)
\* lines 550-565, on the heap hp.
formatLispValue(value, hp) ==
  IF value.t \in {"undefined", "null"} THEN <<"N", "I", "L">>
  ELSE IF IsArray(value)
  THEN IF hp[value.r] = <<>> THEN <<"N", "I", "L">>
       ELSE <<"(">>
            \o JoinChars([k \in 1..Len(hp[value.r]) |->
                            formatLispValue(hp[value.r][k], hp)], <<" ">>)
            \o <<")">>
  ELSE IF IsFunction(value)
  THEN <<"#", "<", "F", "U", "N", "C", "T", "I", "O", "N", ">">>
  ELSE IF IsString(value) THEN value.s
  ELSE IF value.t = "boolean"
  THEN IF value.b THEN <<"t", "r", "u", "e">> ELSE <<"f", "a", "l", "s", "e">>
  ELSE NumberChars(value)

RECURSIVE JsString(_, _)
\* String(v), as a template literal `${v}` computes it.  The text of a
\* function is that of its source, which the model does not keep.
JsString(v, hp) ==
  CASE v.t = "string" -> Text(v.s)
    [] v.t = "number" -> Text(NumberChars(v))
    [] v.t = "boolean" -> IF v.b THEN "true" ELSE "false"
    [] v.t = "null" -> "null"
    [] v.t = "undefined" -> "undefined"
    [] v.t = "array" ->
         Text(JoinChars([k \in 1..Len(hp[v.r]) |->
                           IF hp[v.r][k].t \in {"null", "undefined"} THEN <<>>
                           ELSE <<JsString(hp[v.r][k], hp)>>], <<",">>))
    [] OTHER -> "[function]"

RECURSIVE StepInTurn(_, _, _, _, _), DoLoopSequential(_, _, _, _, _, _)
RECURSIVE FirstReaderError(_, _)
RECURSIVE DotimesLoopOnVariable(_, _, _, _, _, _)
RECURSIVE evaluate(_, _, _), EvalEach(_, _, _, _), EvalBody(_, _, _, _),
          Apply(_, _, _), CallClosure(_, _, _),
          ApplyBuiltin(_, _, _), SetqLoop(_, _, _, _, _),
          SetfLoop(_, _, _, _, _), CondLoop(_, _, _, _),
          CaseLoop(_, _, _, _, _), LetLoop(_, _, _, _), DoInit(_, _, _, _, _, _, _),
          DoLoop(_, _, _, _, _, _), DolistLoop(_, _, _, _, _, _),
          DotimesLoop(_, _, _, _, _, _), AndLoop(_, _, _, _), OrLoop(_, _, _, _),
          MapcarLoop(_, _, _, _, _, _), EqualLoop(_, _, _, _)

\* args.map((arg) => evaluate(arg, env)): the values, left to right, after acc.
EvalEach(exprs, env, m, acc) ==
  IF exprs = <<>> THEN EvOk(acc, m)
  ELSE LET before == EvalEach(SubSeq(exprs, 1, Len(exprs) - 1), env, m, acc)
           r == evaluate(exprs[Len(exprs)], env, before.m)
       IN  CASE before.e # "" -> before
             [] before.e = "" /\ r.e # "" -> r
             [] OTHER -> EvOk(Append(before.v, r.v), r.m)

\* `for (const expr of body) result = evaluate(expr, env)`, result being
\* `last` before the loop.
EvalBody(exprs, env, m, last) ==
  IF exprs = <<>> THEN EvOk(last, m)
  ELSE LET before == EvalBody(SubSeq(exprs, 1, Len(exprs) - 1), env, m, last)
       IN  IF before.e # "" THEN before
           ELSE evaluate(exprs[Len(exprs)], env, before.m)

\* The body loop followed by `return result !== undefined ? result : null`.
EvalBodyOrNull(exprs, env, m, last) ==
  LET r == EvalBody(exprs, env, m, last)
  IN  IF r.e # "" THEN r ELSE EvOk(OrNull(r.v), r.m)

\* lines 590-596
evalQuote(args, env, m) ==
  IF Len(args) # 1 THEN EvFail("quote: Expected 1 argument", m)
  ELSE EvOk(args[1], m)

\* lines 627-628 and 646-647: the binding is written to the current
\* environment object and to globalEnv.
Assign(m, env, key, v) == SetVar(SetVar(m, env, key, v), GlobalEnv, key, v)

\* a defun whose function keeps a copy of the frame as it is when the defun
\* is evaluated
evalDefunSnapshot(args, env, m) ==
  IF Len(args) < 3 THEN EvFail("defun: Expected at least 3 arguments", m)
  ELSE IF ~IsString(args[1])
  THEN EvFail("defun: Function name must be a symbol", m)
  ELSE IF ~IsArray(args[2])
  THEN EvFail("defun: Parameter list must be a list", m)
  ELSE LET m1 == CopyFrame(m, env)
           fn == Closure(m.fnCount + 1, "defun", args[2],
                         SubSeq(args, 3, Len(args)), Len(m1.frames))
       IN  EvOk(args[1],
                Assign([m1 EXCEPT !.fnCount = @ + 1], env, Text(args[1].s), fn))

\* lines 598-630
evalDefun(args, env, m) ==
  IF Len(args) < 3 THEN EvFail("defun: Expected at least 3 arguments", m)
  ELSE IF ~IsString(args[1])
  THEN EvFail("defun: Function name must be a symbol", m)
  ELSE IF ~IsArray(args[2])
  THEN EvFail("defun: Parameter list must be a list", m)
  ELSE LET fn == Closure(m.fnCount + 1, "defun", args[2],
                         SubSeq(args, 3, Len(args)), env)
       IN  EvOk(args[1],
                Assign([m EXCEPT !.fnCount = @ + 1], env, Text(args[1].s), fn))

\* lines 638-649, from the pair at k
SetqLoop(args, k, env, m, last) ==
  IF k > Len(args) THEN EvOk(last, m)
  ELSE LET r == evaluate(args[k + 1], env, m)
       IN  IF r.e # "" THEN r
           ELSE IF ~IsString(args[k])
           THEN EvFail("setq: Variable name must be a symbol", r.m)
           ELSE SetqLoop(args, k + 2, env,
                         Assign(r.m, env, Text(args[k].s), r.v), r.v)

\* lines 632-652
evalSetq(args, env, m) ==
  IF Len(args) % 2 # 0
  THEN EvFail("setq: Expected even number of arguments", m)
  ELSE SetqLoop(args, 1, env, m, Null)

\* lines 669-686: the assignment to the place (accessor ev...), ev being the
\* evaluated operands of the place.
\* `list[NaN] = value` passes the tests of line 680 and sets a property of
\* the array, none of its elements.
SetPlace(accessor, ev, value, m) ==
  IF accessor = Str(<<"c", "a", "r">>)
  THEN LET list == At(ev, 1)
       IN  IF ~IsArray(list) \/ m.heap[list.r] = <<>>
           THEN EvFail("setf: Cannot set car of empty list", m)
           ELSE EvOk(value, [m EXCEPT !.heap[list.r][1] = value])
  ELSE IF accessor = Str(<<"n", "t", "h">>)
  THEN LET index == At(ev, 1)
           list == At(ev, 2)
       IN  IF ~IsArray(list)
           THEN EvFail("setf: Cannot set nth of non-list", m)
           ELSE IF ~IsNumber(index)
           THEN EvFail("setf: Index out of bounds", m)
           ELSE IF index = NonInteger THEN EvFail(Unmodelled, m)
           ELSE IF index = NaN THEN EvOk(value, m)
           ELSE IF index.n < 0 \/ index.n >= Len(m.heap[list.r])
           THEN EvFail("setf: Index out of bounds", m)
           ELSE EvOk(value, [m EXCEPT !.heap[list.r][index.n + 1] = value])
  ELSE EvFail("setf: Unsupported place: " \o JsString(accessor, m.heap), m)

\* lines 660-695, from the pair at k
SetfLoop(args, k, env, m, last) ==
  IF k > Len(args) THEN EvOk(last, m)
  ELSE LET place == args[k]
           r == evaluate(args[k + 1], env, m)
       IN  IF r.e # "" THEN r
           ELSE IF IsArray(place)
           THEN LET cell == r.m.heap[place.r]
                    a == EvalEach(IF cell = <<>> THEN <<>> ELSE Tail(cell),
                                  env, r.m, <<>>)
                IN  IF a.e # "" THEN a
                    ELSE LET w == SetPlace(At(cell, 1), a.v, r.v, a.m)
                         IN  IF w.e # "" THEN w
                             ELSE SetfLoop(args, k + 2, env, w.m, r.v)
           ELSE IF IsString(place)
           THEN SetfLoop(args, k + 2, env,
                         Assign(r.m, env, Text(place.s), r.v), r.v)
           ELSE EvFail("setf: Invalid place", r.m)

\* lines 654-698
evalSetf(args, env, m) ==
  IF Len(args) % 2 # 0
  THEN EvFail("setf: Expected even number of arguments", m)
  ELSE SetfLoop(args, 1, env, m, Null)

\* The test of line 706 had it been written `conditionResult !== false`.
IfSelectsThenUnlessFalse(conditionResult) == conditionResult # Bool(FALSE)

\* line 706: `conditionResult ? thenExp : elseExp`
IfSelectsThen(conditionResult) == Truthy(conditionResult)

\* lines 700-707
evalIf(args, env, m) ==
  IF Len(args) < 2 \/ Len(args) > 3
  THEN EvFail("if: Expected 2 or 3 arguments", m)
  ELSE LET c == evaluate(args[1], env, m)
       IN  IF c.e # "" THEN c
           ELSE evaluate(IF IfSelectsThen(c.v) THEN args[2]
                         ELSE IF Len(args) = 3 THEN args[3] ELSE Null,
                         env, c.m)

\* line 722: `if (testResult)`
CondSelects(testResult) == Truthy(testResult)

\* lines 710-735, from the clause at k
CondLoop(args, k, env, m) ==
  IF k > Len(args) THEN EvOk(Null, m)
  ELSE IF ~IsArray(args[k]) THEN EvFail("cond: Each clause must be a list", m)
  ELSE IF m.heap[args[k].r] = <<>> THEN EvFail("cond: Empty clause", m)
  ELSE LET clause == m.heap[args[k].r]
           t == evaluate(clause[1], env, m)
       IN  IF t.e # "" THEN t
           ELSE IF CondSelects(t.v)
           THEN IF Len(clause) = 1 THEN t
                ELSE EvalBodyOrNull(Tail(clause), env, t.m, Null)
           ELSE CondLoop(args, k + 1, env, t.m)

\* lines 709-736
evalCond(args, env, m) == CondLoop(args, 1, env, m)

\* line 758: whether the clause with the head keys is selected for keyForm.
CaseMatches(keys, keyForm, hp) ==
  \/ keys = Str(<<"o", "t", "h", "e", "r", "w", "i", "s", "e">>)
  \/ keys = Str(<<"t">>)
  \/ /\ IsArray(keys)
     /\ \E k \in 1..Len(hp[keys.r]) : StrictEquals(hp[keys.r][k], keyForm)

\* lines 745-765, from the clause at k
CaseLoop(args, k, keyForm, env, m) ==
  IF k > Len(args) THEN EvOk(Null, m)
  ELSE IF ~IsArray(args[k]) THEN EvFail("case: Each clause must be a list", m)
  ELSE IF m.heap[args[k].r] = <<>> THEN EvFail("case: Empty clause", m)
  ELSE LET clause == m.heap[args[k].r]
       IN  IF CaseMatches(clause[1], keyForm, m.heap)
           THEN EvalBodyOrNull(Tail(clause), env, m, Null)
           ELSE CaseLoop(args, k + 1, keyForm, env, m)

\* lines 738-768
evalCase(args, env, m) ==
  IF Len(args) < 1 THEN EvFail("case: Expected at least 1 argument", m)
  ELSE LET key == evaluate(args[1], env, m)
       IN  IF key.e # "" THEN key
           ELSE CaseLoop(args, 2, key.v, env, key.m)

\* a lambda that closes over the root frame instead of the frame it is made in
evalLambdaInRoot(args, env, m) ==
  IF Len(args) < 2 THEN EvFail("lambda: Expected at least 2 arguments", m)
  ELSE IF ~IsArray(args[1])
  THEN EvFail("lambda: First argument must be a list of parameters", m)
  ELSE EvOk(Closure(m.fnCount + 1, "lambda", args[1],
                    Tail(args), RootEnv),
            [m EXCEPT !.fnCount = @ + 1])

\* lines 770-794
evalLambda(args, env, m) ==
  IF Len(args) < 2 THEN EvFail("lambda: Expected at least 2 arguments", m)
  ELSE IF ~IsArray(args[1])
  THEN EvFail("lambda: First argument must be a list of parameters", m)
  ELSE EvOk(Closure(m.fnCount + 1, "lambda", args[1],
                    Tail(args), env),
            [m EXCEPT !.fnCount = @ + 1])

\* lines 806-815, from the binding at k of the list bindings
LetLoop(bindings, k, localEnv, m) ==
  IF k > Len(m.heap[bindings.r]) THEN EvOk(Undefined, m)
  ELSE LET binding == m.heap[bindings.r][k]
       IN  IF ~IsArray(binding) \/ Len(m.heap[binding.r]) # 2
           THEN EvFail("let: Binding must be a list of [symbol, value]", m)
           ELSE IF ~IsString(m.heap[binding.r][1])
           THEN EvFail("let: Binding symbol must be a string", m)
           ELSE LET r == evaluate(m.heap[binding.r][2], localEnv, m)
                IN  IF r.e # "" THEN r
                    ELSE LetLoop(bindings, k + 1, localEnv,
                                 SetVar(r.m, localEnv,
                                        Text(m.heap[binding.r][1].s), r.v))

\* lines 796-822
evalLet(args, env, m) ==
  IF Len(args) < 1 THEN EvFail("let: Expected at least 1 argument", m)
  ELSE IF ~IsArray(args[1])
  THEN EvFail("let: First argument must be a list of bindings", m)
  ELSE LET m1 == CopyFrame(m, env)
           localEnv == Len(m1.frames)
           b == LetLoop(args[1], 1, localEnv, m1)
       IN  IF b.e # "" THEN b
           ELSE EvalBodyOrNull(Tail(args), localEnv, b.m, Undefined)

\* lines 824-830
evalBegin(args, env, m) == EvalBodyOrNull(args, env, m, Undefined)

\* lines 852-865, from the specification at k of the list varSpecs: the
\* outcome's value is the pair <<varNames, stepForms>>.
DoInit(varSpecs, k, env, localEnv, m, varNames, stepForms) ==
  IF k > Len(m.heap[varSpecs.r]) THEN EvOk(<<varNames, stepForms>>, m)
  ELSE LET spec == m.heap[varSpecs.r][k]
       IN  IF ~IsArray(spec)
           THEN EvFail("do: Variable specification must be a list", m)
           ELSE LET name == At(m.heap[spec.r], 1)
                    init == At(m.heap[spec.r], 2)
                    step == At(m.heap[spec.r], 3)
                IN  IF ~IsString(name)
                    THEN EvFail("do: Variable name must be a symbol", m)
                    ELSE LET r == evaluate(init, env, m)
                         IN  IF r.e # "" THEN r
                             ELSE DoInit(varSpecs, k + 1, env, localEnv,
                                         SetVar(r.m, localEnv, Text(name.s), r.v),
                                         Append(varNames, Text(name.s)),
                                         Append(stepForms,
                                                IF Truthy(step) THEN step
                                                ELSE name))

\* lines 885-887: localEnv[varNames[k]] = newValues[k] for every k
AssignSteps(m, localEnv, varNames, newValues) ==
  [m EXCEPT !.frames[localEnv] =
     [key \in DOMAIN @ \cup {varNames[k] : k \in 1..Len(varNames)} |->
        IF \E k \in 1..Len(varNames) : varNames[k] = key
        THEN newValues[CHOOSE k \in 1..Len(varNames) :
                         /\ varNames[k] = key
                         /\ \A j \in (k + 1)..Len(varNames) : varNames[j] # key]
        ELSE @[key]]]

\* step forms evaluated and assigned one after the other, from the one at k
StepInTurn(stepForms, varNames, k, localEnv, m) ==
  IF k > Len(stepForms) THEN EvOk(Undefined, m)
  ELSE LET r == evaluate(stepForms[k], localEnv, m)
       IN  IF r.e # "" THEN r
           ELSE StepInTurn(stepForms, varNames, k + 1, localEnv,
                           SetVar(r.m, localEnv, varNames[k], r.v))

\* a loop whose step forms see the variables already updated in the same turn
DoLoopSequential(endTest, body, varNames, stepForms, localEnv, m) ==
  IF m.fuel = 0 THEN EvFail(StillRunning, m)
  ELSE LET t == evaluate(At(m.heap[endTest.r], 1), localEnv, m)
       IN  IF t.e # "" THEN t
           ELSE IF Truthy(t.v)
           THEN EvalBodyOrNull(Tail(t.m.heap[endTest.r]), localEnv, t.m,
                               Undefined)
           ELSE LET b == EvalBody(body, localEnv, t.m, Undefined)
                IN  IF b.e # "" THEN b
                    ELSE LET n == StepInTurn(stepForms, varNames, 1, localEnv,
                                             b.m)
                         IN  IF n.e # "" THEN n
                             ELSE DoLoopSequential(endTest, body, varNames,
                                                   stepForms, localEnv,
                                                   [n.m EXCEPT !.fuel = @ - 1])

\* lines 868-888: one turn of `while (true)` and those after it.
DoLoop(endTest, body, varNames, stepForms, localEnv, m) ==
  IF m.fuel = 0 THEN EvFail(StillRunning, m)
  ELSE LET t == evaluate(At(m.heap[endTest.r], 1), localEnv, m)
       IN  IF t.e # "" THEN t
           ELSE IF Truthy(t.v)
           THEN EvalBodyOrNull(Tail(t.m.heap[endTest.r]), localEnv, t.m,
                               Undefined)
           ELSE LET b == EvalBody(body, localEnv, t.m, Undefined)
                IN  IF b.e # "" THEN b
                    ELSE LET n == EvalEach(stepForms, localEnv, b.m, <<>>)
                         IN  IF n.e # "" THEN n
                             ELSE DoLoop(endTest, body, varNames, stepForms,
                                         localEnv,
                                         AssignSteps([n.m EXCEPT !.fuel = @ - 1],
                                                     localEnv, varNames, n.v))

\* lines 832-889
evalDo(args, env, m) ==
  IF Len(args) < 2 THEN EvFail("do: Expected at least 2 arguments", m)
  ELSE IF ~IsArray(args[1])
  THEN EvFail("do: First argument must be a list of variable specifications", m)
  ELSE IF ~IsArray(args[2])
  THEN EvFail("do: Second argument must be an end test list", m)
  ELSE LET m1 == CopyFrame(m, env)
           localEnv == Len(m1.frames)
           init == DoInit(args[1], 1, env, localEnv, m1, <<>>, <<>>)
       IN  IF init.e # "" THEN init
           ELSE DoLoop(args[2], SubSeq(args, 3, Len(args)), init.v[1],
                       init.v[2], localEnv, init.m)

\* lines 914-920, from the element at k of the live list
DolistLoop(list, k, varName, body, localEnv, m) ==
  IF k > Len(m.heap[list.r]) THEN EvOk(Undefined, m)
  ELSE LET b == EvalBody(body, localEnv,
                         SetVar(m, localEnv, varName, m.heap[list.r][k]),
                         Undefined)
       IN  IF b.e # "" THEN b
           ELSE DolistLoop(list, k + 1, varName, body, localEnv, b.m)

\* lines 891-925
evalDolist(args, env, m) ==
  IF Len(args) < 1 THEN EvFail("dolist: Expected at least 1 argument", m)
  ELSE IF ~IsArray(args[1]) \/ Len(m.heap[args[1].r]) < 2
  THEN EvFail("dolist: First argument must be a list with at least 2 elements", m)
  ELSE LET spec == m.heap[args[1].r]
           resultForm == At(spec, 3)
       IN  IF ~IsString(spec[1])
           THEN EvFail("dolist: Variable name must be a symbol", m)
           ELSE LET l == evaluate(spec[2], env, m)
                IN  IF l.e # "" THEN l
                    ELSE IF ~IsArray(l.v)
                    THEN EvFail("dolist: Second element must evaluate to a list",
                                l.m)
                    ELSE LET m1 == CopyFrame(l.m, env)
                             localEnv == Len(m1.frames)
                             d == DolistLoop(l.v, 1, Text(spec[1].s), Tail(args),
                                             localEnv, m1)
                         IN  IF d.e # "" THEN d
                             ELSE LET m2 == Alloc(d.m, <<>>)
                                      m3 == SetVar(m2, localEnv, Text(spec[1].s),
                                                   Arr(Len(m2.heap)))
                                  IN  IF Truthy(resultForm)
                                      THEN evaluate(resultForm, localEnv, m3)
                                      ELSE LET m4 == Alloc(m3, <<>>)
                                           IN  EvOk(Arr(Len(m4.heap)), m4)

\* a loop that counts in the variable itself, so that the body can move it
DotimesLoopOnVariable(k, count, varName, body, localEnv, m) ==
  IF k >= count THEN EvOk(Undefined, m)
  ELSE LET b == EvalBody(body, localEnv, SetVar(m, localEnv, varName, Num(k)),
                         Undefined)
       IN  IF b.e # "" THEN b
           ELSE IF ~IsInt(b.m.frames[localEnv][varName]) THEN EvOk(Undefined, b.m)
           ELSE DotimesLoopOnVariable(b.m.frames[localEnv][varName].n + 1,
                                      count, varName, body, localEnv, b.m)

\* lines 950-956, from i = k up to count - 1
DotimesLoop(k, count, varName, body, localEnv, m) ==
  IF k >= count THEN EvOk(Undefined, m)
  ELSE LET b == EvalBody(body, localEnv, SetVar(m, localEnv, varName, Num(k)),
                         Undefined)
       IN  IF b.e # "" THEN b
           ELSE DotimesLoop(k + 1, count, varName, body, localEnv, b.m)

\* lines 927-961
evalDotimes(args, env, m) ==
  IF Len(args) < 1 THEN EvFail("dotimes: Expected at least 1 argument", m)
  ELSE IF ~IsArray(args[1]) \/ Len(m.heap[args[1].r]) < 2
  THEN EvFail("dotimes: First argument must be a list with at least 2 elements", m)
  ELSE LET spec == m.heap[args[1].r]
           resultForm == At(spec, 3)
       IN  IF ~IsString(spec[1])
           THEN EvFail("dotimes: Variable name must be a symbol", m)
           ELSE LET c == evaluate(spec[2], env, m)
                IN  IF c.e # "" THEN c
                    ELSE IF ~IsNumber(c.v) \/ (IsInt(c.v) /\ c.v.n < 0)
                    THEN EvFail("dotimes: Count must be a non-negative number",
                                c.m)
                    ELSE IF c.v = NonInteger THEN EvFail(Unmodelled, c.m)
                    ELSE LET m1 == CopyFrame(c.m, env)
                             localEnv == Len(m1.frames)
                             d == DotimesLoop(0, IF c.v = NaN THEN 0 ELSE c.v.n,
                                              Text(spec[1].s), Tail(args),
                                              localEnv, m1)
                         IN  IF d.e # "" THEN d
                             ELSE LET m2 == SetVar(d.m, localEnv,
                                                   Text(spec[1].s), c.v)
                                  IN  IF Truthy(resultForm)
                                      THEN evaluate(resultForm, localEnv, m2)
                                      ELSE LET m3 == Alloc(m2, <<>>)
                                           IN  EvOk(Arr(Len(m3.heap)), m3)

\* lines 963-970
evalEval(args, env, m) ==
  IF Len(args) # 1 THEN EvFail("eval: Expected 1 argument", m)
  ELSE LET form == evaluate(args[1], env, m)
       IN  IF form.e # "" THEN form ELSE evaluate(form.v, env, form.m)

\* an `and` that evaluates every operand before it tests them
AndLoopEager(args, k, env, m) ==
  LET r == EvalEach(SubSeq(args, k, Len(args)), env, m, <<>>)
  IN  IF r.e # "" THEN r
      ELSE EvOk(Bool(\A j \in 1..Len(r.v) : Truthy(r.v[j])), r.m)

\* lines 975-979, from the operand at k
AndLoop(args, k, env, m) ==
  IF k > Len(args) THEN EvOk(Bool(TRUE), m)
  ELSE LET r == evaluate(args[k], env, m)
       IN  IF r.e # "" THEN r
           ELSE IF ~Truthy(r.v) THEN EvOk(Bool(FALSE), r.m)
           ELSE AndLoop(args, k + 1, env, r.m)

\* lines 973-980
evalAnd(args, env, m) == AndLoop(args, 1, env, m)

\* The value of line 985 had it been written without the `!!`.
OrResultUncoerced(v) == v

\* line 985: `result = !!evaluate(arg, env)`, the value `or` returns when it
\* is true.
OrResult(v) == Bool(Truthy(v))

\* lines 984-988, from the operand at k
OrLoop(args, k, env, m) ==
  IF k > Len(args) THEN EvOk(Bool(FALSE), m)
  ELSE LET r == evaluate(args[k], env, m)
       IN  IF r.e # "" THEN r
           ELSE IF Truthy(r.v) THEN EvOk(OrResult(r.v), r.m)
           ELSE OrLoop(args, k + 1, env, r.m)

\* lines 982-989
evalOr(args, env, m) == OrLoop(args, 1, env, m)

RECURSIVE BindParams(_, _, _, _, _, _)
\* lines 612-617 and 780-785, from the parameter at k
BindParams(params, k, fnArgs, localEnv, m, kind) ==
  IF k > Len(m.heap[params.r]) THEN EvOk(Undefined, m)
  ELSE LET param == m.heap[params.r][k]
       IN  IF ~IsString(param)
           THEN EvFail(kind \o ": Parameters must be symbols", m)
           ELSE BindParams(params, k + 1, fnArgs, localEnv,
                           SetVar(m, localEnv, Text(param.s),
                                  IF k <= Len(fnArgs) THEN fnArgs[k] ELSE Null),
                           kind)

\* lines 610-625 and 778-793: a call of the closure fn.
CallClosure(fn, fnArgs, m) ==
  LET m1 == CopyFrame([m EXCEPT !.fuel = @ - 1], fn.env)
      localEnv == Len(m1.frames)
      b == BindParams(fn.params, 1, fnArgs, localEnv, m1, fn.kind)
  IN  CASE m.fuel = 0 -> EvFail(StillRunning, m)
        [] m.fuel # 0 /\ b.e # "" -> b
        [] OTHER -> EvalBodyOrNull(fn.body, localEnv, b.m, Null)

\* procedure(...evaluatedArgs)
Apply(fn, fnArgs, m) ==
  CASE "builtin" \in DOMAIN fn -> ApplyBuiltin(fn.builtin, fnArgs, m)
    [] "host" \in DOMAIN fn -> EvFail(Unmodelled, m)
    [] OTHER -> CallClosure(fn, fnArgs, m)

\* lines 992-1003
evalApplication(op, args, env, m) ==
  LET procedure == evaluate(op, env, m)
      a == EvalEach(args, env, procedure.m, <<>>)
      r == Apply(procedure.v, a.v, a.m)
  IN  CASE procedure.e # "" -> procedure
        [] procedure.e = "" /\ a.e # "" -> a
        [] procedure.e = "" /\ a.e = "" /\ ~IsFunction(procedure.v) ->
             EvFail("Not a procedure: " \o JsString(op, a.m.heap), a.m)
        [] procedure.e = "" /\ a.e = "" /\ IsFunction(procedure.v)
             /\ r.e \in {"", StillRunning, Unmodelled} -> r
        [] OTHER -> EvFail("Error in procedure " \o JsString(op, r.m.heap)
                             \o ": " \o r.e,
                           r.m)

\* line 570: whether the form exp evaluates to itself.
IsSelfEvaluating(exp) ==
  \/ exp.t \in {"number", "boolean"}
  \/ exp.t = "string" /\ exp.s # <<>> /\ exp.s[1] = "\""

\* line 586, `const [op, ...args] = exp`: the head of a non-empty list when
\* it is a string, "" otherwise.
OpName(exp, m) ==
  IF IsArray(exp) /\ m.heap[exp.r] # <<>> /\ IsString(m.heap[exp.r][1])
  THEN Text(m.heap[exp.r][1].s)
  ELSE ""

\* The operands `args` of the list exp.
Operands(exp, m) == Tail(m.heap[exp.r])

\* The heads lines 590-989 test for before the procedure application.
SpecialForms ==
  {"quote", "defun", "setq", "setf", "if", "cond", "case", "lambda", "let",
   "begin", "progn", "do", "dolist", "dotimes", "eval", "and", "or"}

\* lines 568-1007
evaluate(exp, env, m) ==
  CASE IsSelfEvaluating(exp) -> EvOk(exp, m)
    [] ~IsSelfEvaluating(exp) /\ IsString(exp) ->
         IF HasProperty(m.frames[env], Text(exp.s))
         THEN EvOk(GetProperty(m.frames[env], Text(exp.s)), m)
         ELSE EvFail("Unknown symbol: " \o Text(exp.s), m)
    [] IsArray(exp) /\ m.heap[exp.r] = <<>> ->
         LET m1 == Alloc(m, <<>>) IN EvOk(Arr(Len(m1.heap)), m1)
    [] OpName(exp, m) = "quote" -> evalQuote(Operands(exp, m), env, m)
    [] OpName(exp, m) = "defun" -> evalDefun(Operands(exp, m), env, m)
    [] OpName(exp, m) = "setq" -> evalSetq(Operands(exp, m), env, m)
    [] OpName(exp, m) = "setf" -> evalSetf(Operands(exp, m), env, m)
    [] OpName(exp, m) = "if" -> evalIf(Operands(exp, m), env, m)
    [] OpName(exp, m) = "cond" -> evalCond(Operands(exp, m), env, m)
    [] OpName(exp, m) = "case" -> evalCase(Operands(exp, m), env, m)
    [] OpName(exp, m) = "lambda" -> evalLambda(Operands(exp, m), env, m)
    [] OpName(exp, m) = "let" -> evalLet(Operands(exp, m), env, m)
    [] OpName(exp, m) \in {"begin", "progn"} ->
         evalBegin(Operands(exp, m), env, m)
    [] OpName(exp, m) = "do" -> evalDo(Operands(exp, m), env, m)
    [] OpName(exp, m) = "dolist" -> evalDolist(Operands(exp, m), env, m)
    [] OpName(exp, m) = "dotimes" -> evalDotimes(Operands(exp, m), env, m)
    [] OpName(exp, m) = "eval" -> evalEval(Operands(exp, m), env, m)
    [] OpName(exp, m) = "and" -> evalAnd(Operands(exp, m), env, m)
    [] OpName(exp, m) = "or" -> evalOr(Operands(exp, m), env, m)
    [] IsArray(exp) /\ m.heap[exp.r] # <<>>
         /\ OpName(exp, m) \notin SpecialForms ->
         evalApplication(m.heap[exp.r][1], Operands(exp, m), env, m)
    [] OTHER -> EvFail("Cannot evaluate: " \o JsString(exp, m.heap), m)

(***************************************************************************)
(* The built-in operators of createEnvironment, lines 145-547.             *)
(***************************************************************************)
AllNumbers(args) == \A k \in 1..Len(args) : IsNumber(args[k])
AllArrays(args) == \A k \in 1..Len(args) : IsArray(args[k])

Abs(n) == IF n < 0 THEN 0 - n ELSE n

\* a + b, a - b, a * b of the host.
Arith(op, a, b) ==
  IF a = NaN \/ b = NaN THEN NaN
  ELSE IF ~IsInt(a) \/ ~IsInt(b) THEN NonInteger
  ELSE CASE op = "+" -> Num(a.n + b.n)
         [] op = "-" -> Num(a.n - b.n)
         [] op = "*" -> Num(a.n * b.n)

\* a / b of the host.
Divide(a, b) ==
  IF a = NaN \/ b = NaN THEN NaN
  ELSE IF ~IsInt(a) \/ ~IsInt(b) THEN NonInteger
  ELSE IF b.n = 0 THEN IF a.n = 0 THEN NaN ELSE NonInteger
  ELSE IF Abs(a.n) % Abs(b.n) # 0 THEN NonInteger
  ELSE IF (a.n < 0) = (b.n < 0) THEN Num(Abs(a.n) \div Abs(b.n))
  ELSE Num(0 - (Abs(a.n) \div Abs(b.n)))

\* a % b of the host: the remainder has the sign of a.
Remainder(a, b) ==
  IF a = NaN \/ b = NaN THEN NaN
  ELSE IF ~IsInt(a) \/ ~IsInt(b) THEN NonInteger
  ELSE IF b.n = 0 THEN NaN
  ELSE IF a.n < 0 THEN Num(0 - (Abs(a.n) % Abs(b.n)))
  ELSE Num(a.n % Abs(b.n))

RECURSIVE Reduce(_, _, _)
\* nums.reduce over the elements of nums, from the accumulator acc.
Reduce(op, nums, acc) ==
  IF nums = <<>> THEN acc
  ELSE Reduce(op, Tail(nums),
              IF op = "/" THEN Divide(acc, nums[1]) ELSE Arith(op, acc, nums[1]))

\* lines 148-173
Arithmetic(op, args, m) ==
  IF ~AllNumbers(args)
  THEN EvFail(op \o ": All arguments must be numbers", m)
  ELSE CASE op = "+" -> EvOk(Reduce("+", args, Num(0)), m)
         [] op = "*" -> EvOk(Reduce("*", args, Num(1)), m)
         [] OTHER ->
              IF Len(args) = 0
              THEN EvFail("Reduce of empty array with no initial value", m)
              ELSE IF Len(args) = 1
              THEN EvOk(IF op = "-" THEN Arith("-", Num(0), args[1])
                        ELSE Divide(Num(1), args[1]), m)
              ELSE EvOk(Reduce(op, Tail(args), args[1]), m)

\* lines 184-223
Comparison(op, args, m) ==
  IF Len(args) # 2 THEN EvFail(op \o ": Expected exactly 2 arguments", m)
  ELSE IF ~IsNumber(args[1]) \/ ~IsNumber(args[2])
  THEN EvFail(op \o ": Both arguments must be numbers", m)
  ELSE IF args[1] = NaN \/ args[2] = NaN THEN EvOk(Bool(FALSE), m)
  ELSE IF ~IsInt(args[1]) \/ ~IsInt(args[2]) THEN EvFail(Unmodelled, m)
  ELSE EvOk(Bool(CASE op = ">" -> args[1].n > args[2].n
                   [] op = "<" -> args[1].n < args[2].n
                   [] op = ">=" -> args[1].n >= args[2].n
                   [] op = "<=" -> args[1].n <= args[2].n
                   [] op = "=" -> args[1].n = args[2].n), m)

\* lines 226-232, 274-308, 316-336: the element at k, at least need elements
\* being required.
ElementAt(op, args, k, m) ==
  IF Len(args) # 1 THEN EvFail(op \o ": Expected exactly 1 argument", m)
  ELSE IF ~IsArray(args[1]) THEN EvFail(op \o ": Expected list", m)
  ELSE IF Len(m.heap[args[1].r]) < k
  THEN EvFail(op \o (IF k = 1 THEN ": Empty list" ELSE ": List too short"), m)
  ELSE EvOk(m.heap[args[1].r][k], m)

\* list.slice(from) into a new array
SliceFrom(list, from, m) ==
  LET m1 == Alloc(m, SubSeq(m.heap[list.r], from + 1, Len(m.heap[list.r])))
  IN  EvOk(Arr(Len(m1.heap)), m1)

\* lines 233-246
Rest(op, args, m) ==
  IF Len(args) # 1 THEN EvFail(op \o ": Expected exactly 1 argument", m)
  ELSE IF ~IsArray(args[1]) THEN EvFail(op \o ": Expected list", m)
  ELSE IF m.heap[args[1].r] = <<>> THEN EvFail(op \o ": Empty list", m)
  ELSE SliceFrom(args[1], 1, m)

RECURSIVE Concat(_, _)
\* lines 258: the elements of the arrays lists, in order
Concat(lists, hp) ==
  IF lists = <<>> THEN <<>> ELSE hp[lists[1].r] \o Concat(Tail(lists), hp)

RECURSIVE Reversed(_)
Reversed(seq) ==
  IF seq = <<>> THEN <<>> ELSE Append(Reversed(Tail(seq)), seq[1])

\* The relative index of Array.prototype.slice for an integer index.
SliceIndex(n, len) ==
  IF n < 0 THEN (IF len + n < 0 THEN 0 ELSE len + n)
  ELSE IF n > len THEN len ELSE n

\* lines 337-344
Subseq(args, m) ==
  IF Len(args) < 2 \/ Len(args) > 3
  THEN EvFail("subseq: Expected 2 or 3 arguments", m)
  ELSE IF ~IsArray(args[1])
  THEN EvFail("subseq: First argument must be a list", m)
  ELSE IF ~IsNumber(args[2])
  THEN EvFail("subseq: Second argument must be a number", m)
  ELSE IF At(args, 3) # Undefined /\ ~IsNumber(At(args, 3))
  THEN EvFail("subseq: Third argument must be a number", m)
  ELSE IF args[2] = NonInteger \/ At(args, 3) = NonInteger
  THEN EvFail(Unmodelled, m)
  ELSE LET cell == m.heap[args[1].r]
           from == IF args[2] = NaN THEN 0 ELSE SliceIndex(args[2].n, Len(cell))
           to == IF At(args, 3) = Undefined THEN Len(cell)
                 ELSE IF args[3] = NaN THEN 0
                 ELSE SliceIndex(args[3].n, Len(cell))
           m1 == Alloc(m, SubSeq(cell, from + 1, to))
       IN  EvOk(Arr(Len(m1.heap)), m1)

\* lines 351-364 and 371-384: the function funcall and mapcar call for their
\* first argument; a name is looked up in the object createEnvironment built.
ResolveFunction(op, fnNameOrFn, m) ==
  IF IsString(fnNameOrFn)
  THEN LET key == Text(fnNameOrFn.s)
       IN  IF ~HasProperty(m.frames[RootEnv], key)
           THEN EvFail(op \o ": Function " \o key \o " not found", m)
           ELSE IF ~IsFunction(GetProperty(m.frames[RootEnv], key))
           THEN EvFail(op \o ": " \o key \o " is not a function", m)
           ELSE EvOk(GetProperty(m.frames[RootEnv], key), m)
  ELSE IF IsFunction(fnNameOrFn) THEN EvOk(fnNameOrFn, m)
  ELSE EvFail(op \o ": First argument must be a function or function name", m)

\* lines 347-366
Funcall(args, m) ==
  IF Len(args) < 1 THEN EvFail("funcall: Expected at least 1 argument", m)
  ELSE LET fn == ResolveFunction("funcall", args[1], m)
       IN  IF fn.e # "" THEN fn ELSE Apply(fn.v, Tail(args), m)

\* Math.min(...lengths) of lines 388, for at least one list
MinLength(lists, hp) ==
  CHOOSE n \in {Len(hp[lists[k].r]) : k \in 1..Len(lists)} :
    \A k \in 1..Len(lists) : n <= Len(hp[lists[k].r])

\* lines 390-393, from the index k (1-based) with the results so far
MapcarLoop(func, lists, k, minLength, acc, m) ==
  IF k > minLength THEN LET m1 == Alloc(m, acc) IN EvOk(Arr(Len(m1.heap)), m1)
  ELSE LET r == Apply(func, [j \in 1..Len(lists) |-> At(m.heap[lists[j].r], k)],
                      m)
       IN  IF r.e # "" THEN r
           ELSE MapcarLoop(func, lists, k + 1, minLength, Append(acc, r.v), r.m)

\* lines 367-395
Mapcar(args, m) ==
  IF Len(args) < 2 THEN EvFail("mapcar: Expected at least 2 arguments", m)
  ELSE LET fn == ResolveFunction("mapcar", args[1], m)
       IN  IF fn.e # "" THEN fn
           ELSE IF ~AllArrays(Tail(args))
           THEN EvFail("mapcar: All arguments after the first must be lists", m)
           ELSE MapcarLoop(fn.v, Tail(args), 1, MinLength(Tail(args), m.heap),
                           <<>>, m)

\* lines 449-451, from the index k: the outcome's value is the boolean
\* returned.
EqualLoop(a, b, k, m) ==
  IF k > Len(m.heap[a.r]) THEN EvOk(Bool(TRUE), m)
  ELSE IF ~IsFunction(GetProperty(m.frames[RootEnv], "equal"))
  THEN EqualLoop(a, b, k + 1, m)
  ELSE LET r == Apply(GetProperty(m.frames[RootEnv], "equal"),
                      <<m.heap[a.r][k], At(m.heap[b.r], k)>>, m)
       IN  IF r.e # "" THEN r
           ELSE IF ~Truthy(r.v) THEN EvOk(Bool(FALSE), r.m)
           ELSE EqualLoop(a, b, k + 1, r.m)

\* lines 444-455
Equal(args, m) ==
  IF Len(args) # 2 THEN EvFail("equal: Expected exactly 2 arguments", m)
  ELSE IF IsArray(args[1]) /\ IsArray(args[2])
  THEN IF Len(m.heap[args[1].r]) # Len(m.heap[args[2].r])
       THEN EvOk(Bool(FALSE), m)
       ELSE EqualLoop(args[1], args[2], 1, m)
  ELSE EvOk(Bool(StrictEquals(args[1], args[2])), m)

\* lines 398-443, 456-463: the predicates of one argument
Predicate(op, args, m) ==
  IF Len(args) # 1 THEN EvFail(op \o ": Expected exactly 1 argument", m)
  ELSE CASE op \in {"listp", "list?"} -> EvOk(Bool(IsArray(args[1])), m)
         [] op = "atom" -> EvOk(Bool(~IsArray(args[1])), m)
         [] op \in {"null", "null?"} ->
              EvOk(Bool(IsArray(args[1]) /\ m.heap[args[1].r] = <<>>), m)
         [] op \in {"numberp", "number?"} -> EvOk(Bool(IsNumber(args[1])), m)
         [] op = "symbol?" -> EvOk(Bool(IsString(args[1])), m)
         [] op = "not" -> EvOk(Bool(~Truthy(args[1])), m)
         [] OTHER ->
              IF ~IsNumber(args[1])
              THEN EvFail(op \o ": Argument must be a number", m)
              ELSE IF args[1] = NaN THEN EvOk(Bool(FALSE), m)
              ELSE IF ~IsInt(args[1]) THEN EvFail(Unmodelled, m)
              ELSE EvOk(Bool(CASE op = "zerop" -> args[1].n = 0
                               [] op = "plusp" -> args[1].n > 0
                               [] op = "minusp" -> args[1].n < 0), m)

\* Math.max / Math.min of integers
Extreme(op, args) ==
  IF \E k \in 1..Len(args) : args[k] = NaN THEN NaN
  ELSE IF \E k \in 1..Len(args) : ~IsInt(args[k]) THEN NonInteger
  ELSE args[CHOOSE k \in 1..Len(args) : \A j \in 1..Len(args) :
              IF op = "max" THEN args[k].n >= args[j].n
              ELSE args[k].n <= args[j].n]

\* lines 466-488
Numeric(op, args, m) ==
  IF op \in {"max", "min"}
  THEN IF Len(args) = 0 THEN EvFail(op \o ": Expected at least one argument", m)
       ELSE IF ~AllNumbers(args)
       THEN EvFail(op \o ": All arguments must be numbers", m)
       ELSE EvOk(Extreme(op, args), m)
  ELSE IF Len(args) # 1 THEN EvFail(op \o ": Expected exactly 1 argument", m)
  ELSE IF ~IsNumber(args[1]) THEN EvFail(op \o ": Argument must be a number", m)
  ELSE IF ~IsInt(args[1]) THEN EvOk(args[1], m)
  ELSE IF op = "abs" THEN EvOk(Num(Abs(args[1].n)), m)
  ELSE IF args[1].n < 0
  THEN EvFail("sqrt: Cannot take square root of negative number", m)
  ELSE IF \E q \in 0..args[1].n : q * q = args[1].n
  THEN EvOk(Num(CHOOSE q \in 0..args[1].n : q * q = args[1].n), m)
  ELSE EvOk(NonInteger, m)

\* a print that replaces the buffer by its line
printOverwriting(args, m) ==
  EvOk(At(args, Len(args)),
       [m EXCEPT !.out =
          <<Text(JoinChars([k \in 1..Len(args) |->
                             formatLispValue(args[k], m.heap)],
                           <<" ">>))>>])

\* lines 497-501
print(args, m) ==
  EvOk(At(args, Len(args)),
       [m EXCEPT !.out =
          Append(@, Text(JoinChars([k \in 1..Len(args) |->
                                      formatLispValue(args[k], m.heap)],
                                   <<" ">>)))])

\* lines 502-507
prin1(args, m) ==
  IF Len(args) # 1 THEN EvFail("prin1: Expected exactly 1 argument", m)
  ELSE EvOk(args[1],
            [m EXCEPT !.out = Append(@, Text(formatLispValue(args[1], m.heap)))])

RECURSIVE ReplaceDirectives(_, _, _, _)
\* line 514: formatStr with every %s and %d, from the left, replaced by the
\* printed form of the next of otherArgs.
ReplaceDirectives(formatStr, otherArgs, argIndex, hp) ==
  IF formatStr = <<>> THEN <<>>
  ELSE IF Len(formatStr) >= 2 /\ formatStr[1] = "%" /\ formatStr[2] \in {"s", "d"}
  THEN formatLispValue(At(otherArgs, argIndex + 1), hp)
       \o ReplaceDirectives(SubSeq(formatStr, 3, Len(formatStr)), otherArgs,
                            argIndex + 1, hp)
  ELSE <<formatStr[1]>>
       \o ReplaceDirectives(Tail(formatStr), otherArgs, argIndex, hp)

\* line 515: `stream === "t"`
IsOutputStream(stream) == StrictEquals(stream, Str(<<"t">>))

\* lines 508-521
Format(args, m) ==
  IF Len(args) < 2 THEN EvFail("format: Expected at least 2 arguments", m)
  ELSE IF ~IsString(args[2])
  THEN EvFail("format: Format string must be a string", m)
  ELSE LET line == ReplaceDirectives(args[2].s, SubSeq(args, 3, Len(args)), 0,
                                     m.heap)
       IN  IF IsOutputStream(args[1])
           THEN EvOk(Str(line), [m EXCEPT !.out = Append(@, Text(line))])
           ELSE EvOk(Null, m)

\* lines 21-32 of src/src/app/page.tsx: the line the provider returns on its
\* call number n (from 1), "" once the lines are used up.
ProvidedLine(input, n) == IF n <= Len(input.lines) THEN input.lines[n] ELSE <<>>

\* lines 522-528
ReadLine(args, m) ==
  IF Len(args) # 0 THEN EvFail("read-line: Expected 0 arguments", m)
  ELSE IF m.input.present
  THEN EvOk(Str(ProvidedLine(m.input, m.reads + 1)),
            [m EXCEPT !.reads = @ + 1])
  ELSE EvFail("read-line: No input provider configured for the interpreter.", m)

\* an exit that ends the run after its line
ExitHalting(m) ==
  EvFail("exit", [m EXCEPT !.out = Append(@, "Exiting Lisp interpreter")])

\* lines 530-538
Exit(m) ==
  EvOk(Str(<<"e", "x", "i", "t">>),
       [m EXCEPT !.out = Append(@, "Exiting Lisp interpreter")])

\* The call of the built-in operator created under the key name.
ApplyBuiltin(name, args, m) ==
  CASE name \in {"+", "-", "*", "/"} -> Arithmetic(name, args, m)
    [] name = "mod" ->
         IF Len(args) # 2 THEN EvFail("mod: Expected exactly 2 arguments", m)
         ELSE IF ~IsNumber(args[1]) \/ ~IsNumber(args[2])
         THEN EvFail("mod: Both arguments must be numbers", m)
         ELSE EvOk(Remainder(args[1], args[2]), m)
    [] name \in {">", "<", ">=", "<=", "="} -> Comparison(name, args, m)
    [] name \in {"car", "first"} -> ElementAt(name, args, 1, m)
    [] name \in {"second", "cadr"} -> ElementAt(name, args, 2, m)
    [] name \in {"third", "caddr"} -> ElementAt(name, args, 3, m)
    [] name \in {"fourth", "cadddr"} -> ElementAt(name, args, 4, m)
    [] name = "fifth" -> ElementAt(name, args, 5, m)
    [] name \in {"cdr", "rest"} -> Rest(name, args, m)
    [] name = "cons" ->
         IF Len(args) # 2 THEN EvFail("cons: Expected exactly 2 arguments", m)
         ELSE IF ~IsArray(args[2])
         THEN EvFail("cons: Second argument must be a list", m)
         ELSE LET m1 == Alloc(m, <<args[1]>> \o m.heap[args[2].r])
              IN  EvOk(Arr(Len(m1.heap)), m1)
    [] name = "list" -> LET m1 == Alloc(m, args) IN EvOk(Arr(Len(m1.heap)), m1)
    [] name = "append" ->
         IF ~AllArrays(args) THEN EvFail("append: All arguments must be lists", m)
         ELSE LET m1 == Alloc(m, Concat(args, m.heap))
              IN  EvOk(Arr(Len(m1.heap)), m1)
    [] name = "reverse" ->
         IF Len(args) # 1 THEN EvFail("reverse: Expected exactly 1 argument", m)
         ELSE IF ~IsArray(args[1]) THEN EvFail("reverse: Expected list", m)
         ELSE LET m1 == Alloc(m, Reversed(m.heap[args[1].r]))
              IN  EvOk(Arr(Len(m1.heap)), m1)
    \* lines 266-273; with an index that is no integer, line 272 reads a
    \* property of the array, which the model does not keep
    [] name = "nth" ->
         IF Len(args) # 2 THEN EvFail("nth: Expected exactly 2 arguments", m)
         ELSE IF ~IsNumber(args[1])
         THEN EvFail("nth: First argument must be a number", m)
         ELSE IF ~IsArray(args[2])
         THEN EvFail("nth: Second argument must be a list", m)
         ELSE IF ~IsInt(args[1]) THEN EvFail(Unmodelled, m)
         ELSE IF args[1].n < 0 \/ args[1].n >= Len(m.heap[args[2].r])
         THEN EvFail("nth: Index out of bounds", m)
         ELSE EvOk(m.heap[args[2].r][args[1].n + 1], m)
    [] name = "member" ->
         IF Len(args) # 2 THEN EvFail("member: Expected exactly 2 arguments", m)
         ELSE IF ~IsArray(args[2])
         THEN EvFail("member: Second argument must be a list", m)
         ELSE LET cell == m.heap[args[2].r]
                  hits == {k \in 1..Len(cell) : StrictEquals(cell[k], args[1])}
              IN  IF hits = {} THEN EvOk(Bool(FALSE), m)
                  ELSE SliceFrom(args[2],
                                 (CHOOSE k \in hits : \A j \in hits : k <= j) - 1,
                                 m)
    [] name = "subseq" -> Subseq(args, m)
    [] name = "funcall" -> Funcall(args, m)
    [] name = "mapcar" -> Mapcar(args, m)
    [] name = "eq" ->
         IF Len(args) # 2 THEN EvFail("eq: Expected exactly 2 arguments", m)
         ELSE EvOk(Bool(StrictEquals(args[1], args[2])), m)
    [] name = "equal" -> Equal(args, m)
    [] name \in {"listp", "list?", "atom", "null", "null?", "numberp", "number?",
                 "zerop", "plusp", "minusp", "symbol?", "not"} ->
         Predicate(name, args, m)
    [] name \in {"max", "min", "abs", "sqrt"} -> Numeric(name, args, m)
    [] name = "print" -> print(args, m)
    [] name = "prin1" -> prin1(args, m)
    [] name = "format" -> Format(args, m)
    [] name = "read-line" -> ReadLine(args, m)
    [] name \in {"exit", "bye"} -> Exit(m)

\* The keys of the object literal of lines 146-543 whose values are functions.
BuiltinNames ==
  {"+", "-", "*", "/", "mod", ">", "<", ">=", "<=", "=", "car", "cdr", "rest",
   "cons", "list", "append", "reverse", "nth", "first", "second", "third",
   "fourth", "fifth", "member", "cadr", "caddr", "cadddr", "subseq", "funcall",
   "mapcar", "listp", "atom", "null", "null?", "numberp", "number?", "zerop",
   "plusp", "minusp", "eq", "equal", "symbol?", "list?", "max", "min", "abs",
   "sqrt", "not", "print", "prin1", "format", "read-line", "exit", "bye"}

(***************************************************************************)
(* evaluateLisp, lines 26-31 and 1009-1029: the driver.                    *)
(***************************************************************************)
\* The object createEnvironment builds (lines 146-543): the built-in
\* operators, nil (a new empty array, heap[1]) and t.
InitialEnv ==
  [key \in BuiltinNames \cup {"nil", "t"} |->
     IF key = "nil" THEN Arr(1)
     ELSE IF key = "t" THEN Bool(TRUE)
     ELSE Builtin(key)]

\* The state evaluate works on when a top-level form is evaluated.
Machine ==
  [heap |-> heap, frames |-> frames, out |-> outputBuffer, reads |-> reads,
   fnCount |-> fnCount, fuel |-> MaxSteps, input |-> inputProvider]

RECURSIVE JoinLines(_)
\* outputBuffer.join("\n")
JoinLines(lines) ==
  IF lines = <<>> THEN ""
  ELSE IF Len(lines) = 1 THEN lines[1]
  ELSE lines[1] \o "\n" \o JoinLines(Tail(lines))

(***************************************************************************)
(* The source texts the model runs: the programs of the example catalogue  *)
(* (lines 1-22) and programs that exercise each special form and operator. *)
(* The comment before each definition shows the text.                      *)
(***************************************************************************)
\* line 4: Basic Arithmetic
ExampleArithmetic ==
    <<"(", "p", "r", "i", "n", "t", " ", "(", "+", " ", "1", " ", "2", " ",
      "3", " ", "4", ")", ")", "\n", "(", "p", "r", "i", "n", "t", " ", "(",
      "-", " ", "1", "0", " ", "5", ")", ")", "\n", "(", "p", "r", "i", "n",
      "t", " ", "(", "*", " ", "2", " ", "3", " ", "4", ")", ")", "\n", "(",
      "p", "r", "i", "n", "t", " ", "(", "/", " ", "1", "0", " ", "2", ")",
      ")">>

\* line 12: Factorial Function
ExampleFactorial ==
    <<"(", "d", "e", "f", "u", "n", " ", "f", "a", "c", "t", "o", "r", "i",
      "a", "l", " ", "(", "n", ")", "\n", " ", " ", "(", "i", "f", " ", "(",
      "=", " ", "n", " ", "0", ")", "\n", " ", " ", " ", " ", " ", " ", "1",
      "\n", " ", " ", " ", " ", " ", " ", "(", "*", " ", "n", " ", "(", "f",
      "a", "c", "t", "o", "r", "i", "a", "l", " ", "(", "-", " ", "n", " ",
      "1", ")", ")", ")", ")", ")", "\n", "\n", "(", "p", "r", "i", "n", "t",
      " ", "(", "f", "a", "c", "t", "o", "r", "i", "a", "l", " ", "5", ")",
      ")">>

\* line 8 (List Operations) and the list scenarios
\*   (print (list 1 2 3 4))\n(print (car (list 1 2 3)))\n(print (cdr (list 1 2 3)))\n(print (cons 1 (list 2 3)))\n(print (append (list 1 2) (list 3 4)))\n(print (reverse (list 1 2 3)))
\*   (print nil) (print (list))
\*   (car (list))
ListPrograms ==
  {
    <<"(", "p", "r", "i", "n", "t", " ", "(", "l", "i", "s", "t", " ", "1",
      " ", "2", " ", "3", " ", "4", ")", ")", "\n", "(", "p", "r", "i", "n",
      "t", " ", "(", "c", "a", "r", " ", "(", "l", "i", "s", "t", " ", "1",
      " ", "2", " ", "3", ")", ")", ")", "\n", "(", "p", "r", "i", "n", "t",
      " ", "(", "c", "d", "r", " ", "(", "l", "i", "s", "t", " ", "1", " ",
      "2", " ", "3", ")", ")", ")", "\n", "(", "p", "r", "i", "n", "t", " ",
      "(", "c", "o", "n", "s", " ", "1", " ", "(", "l", "i", "s", "t", " ",
      "2", " ", "3", ")", ")", ")", "\n", "(", "p", "r", "i", "n", "t", " ",
      "(", "a", "p", "p", "e", "n", "d", " ", "(", "l", "i", "s", "t", " ",
      "1", " ", "2", ")", " ", "(", "l", "i", "s", "t", " ", "3", " ", "4",
      ")", ")", ")", "\n", "(", "p", "r", "i", "n", "t", " ", "(", "r", "e",
      "v", "e", "r", "s", "e", " ", "(", "l", "i", "s", "t", " ", "1", " ",
      "2", " ", "3", ")", ")", ")">>,
    <<"(", "p", "r", "i", "n", "t", " ", "n", "i", "l", ")", " ", "(", "p",
      "r", "i", "n", "t", " ", "(", "l", "i", "s", "t", ")", ")">>,
    <<"(", "c", "a", "r", " ", "(", "l", "i", "s", "t", ")", ")">>
  }

\* string literals
\*   "hi"
\*   (print "hi")
\*   "car"
\*   ""
\*   (print (quote "a b"))
\*   (print "a\"b")
\*   "abc
StringPrograms ==
  {
    <<"\"", "h", "i", "\"">>,
    <<"(", "p", "r", "i", "n", "t", " ", "\"", "h", "i", "\"", ")">>,
    <<"\"", "c", "a", "r", "\"">>,
    <<"\"", "\"">>,
    <<"(", "p", "r", "i", "n", "t", " ", "(", "q", "u", "o", "t", "e", " ",
      "\"", "a", " ", "b", "\"", ")", ")">>,
    <<"(", "p", "r", "i", "n", "t", " ", "\"", "a", "\\", "\"", "b", "\"", ")">>,
    <<"\"", "a", "b", "c">>
  }

\* comments
\*   ; note\n(print 1)
\*   (print 1) ; done\n(print 2)
\*   (print 1);
\*   ;
\*   (print 1)\n;; end
CommentPrograms ==
  {
    <<";", " ", "n", "o", "t", "e", "\n", "(", "p", "r", "i", "n", "t", " ",
      "1", ")">>,
    <<"(", "p", "r", "i", "n", "t", " ", "1", ")", " ", ";", " ", "d", "o",
      "n", "e", "\n", "(", "p", "r", "i", "n", "t", " ", "2", ")">>,
    <<"(", "p", "r", "i", "n", "t", " ", "1", ")", ";">>,
    <<";">>,
    <<"(", "p", "r", "i", "n", "t", " ", "1", ")", "\n", ";", ";", " ", "e",
      "n", "d">>
  }

\* setq and setf on a symbol, at the top level and in nested frames
\*   (setq x 5) x
\*   (defun f () (setq x 5)) (f) x
\*   (let ((a 1)) (setq y a)) y
\*   (dotimes (k 2) (setq z k)) z
\*   (dolist (e (list 1 2)) (setq w e)) w
\*   (do ((k 0 (+ k 1))) ((= k 2)) (setq v k)) v
\*   (defun g () (setf u 7)) (g) u
\*   (setf u 7) u
AssignPrograms ==
  {
    <<"(", "s", "e", "t", "q", " ", "x", " ", "5", ")", " ", "x">>,
    <<"(", "d", "e", "f", "u", "n", " ", "f", " ", "(", ")", " ", "(", "s",
      "e", "t", "q", " ", "x", " ", "5", ")", ")", " ", "(", "f", ")", " ",
      "x">>,
    <<"(", "l", "e", "t", " ", "(", "(", "a", " ", "1", ")", ")", " ", "(",
      "s", "e", "t", "q", " ", "y", " ", "a", ")", ")", " ", "y">>,
    <<"(", "d", "o", "t", "i", "m", "e", "s", " ", "(", "k", " ", "2", ")",
      " ", "(", "s", "e", "t", "q", " ", "z", " ", "k", ")", ")", " ", "z">>,
    <<"(", "d", "o", "l", "i", "s", "t", " ", "(", "e", " ", "(", "l", "i",
      "s", "t", " ", "1", " ", "2", ")", ")", " ", "(", "s", "e", "t", "q",
      " ", "w", " ", "e", ")", ")", " ", "w">>,
    <<"(", "d", "o", " ", "(", "(", "k", " ", "0", " ", "(", "+", " ", "k",
      " ", "1", ")", ")", ")", " ", "(", "(", "=", " ", "k", " ", "2", ")",
      ")", " ", "(", "s", "e", "t", "q", " ", "v", " ", "k", ")", ")", " ",
      "v">>,
    <<"(", "d", "e", "f", "u", "n", " ", "g", " ", "(", ")", " ", "(", "s",
      "e", "t", "f", " ", "u", " ", "7", ")", ")", " ", "(", "g", ")", " ",
      "u">>,
    <<"(", "s", "e", "t", "f", " ", "u", " ", "7", ")", " ", "u">>
  }

\* defun at the top level and in nested frames
\*   (defun sq (x) (* x x)) (sq 3)
\*   (defun sq (x) (* x x)) (funcall 'sq 3)
\*   (defun sq (x) (* x x)) (mapcar 'sq (list 1 2))
\*   (defun outer () (defun inner () 1)) (outer) (inner)
\*   (defun outer () (defun inner () 1)) (outer) (funcall 'inner)
\*   (let ((a 1)) (defun h () a)) (h)
\*   (let ((a 1)) (defun h () a)) (mapcar 'h (list))
DefunPrograms ==
  {
    <<"(", "d", "e", "f", "u", "n", " ", "s", "q", " ", "(", "x", ")", " ",
      "(", "*", " ", "x", " ", "x", ")", ")", " ", "(", "s", "q", " ", "3",
      ")">>,
    <<"(", "d", "e", "f", "u", "n", " ", "s", "q", " ", "(", "x", ")", " ",
      "(", "*", " ", "x", " ", "x", ")", ")", " ", "(", "f", "u", "n", "c",
      "a", "l", "l", " ", "'", "s", "q", " ", "3", ")">>,
    <<"(", "d", "e", "f", "u", "n", " ", "s", "q", " ", "(", "x", ")", " ",
      "(", "*", " ", "x", " ", "x", ")", ")", " ", "(", "m", "a", "p", "c",
      "a", "r", " ", "'", "s", "q", " ", "(", "l", "i", "s", "t", " ", "1",
      " ", "2", ")", ")">>,
    <<"(", "d", "e", "f", "u", "n", " ", "o", "u", "t", "e", "r", " ", "(",
      ")", " ", "(", "d", "e", "f", "u", "n", " ", "i", "n", "n", "e", "r",
      " ", "(", ")", " ", "1", ")", ")", " ", "(", "o", "u", "t", "e", "r",
      ")", " ", "(", "i", "n", "n", "e", "r", ")">>,
    <<"(", "d", "e", "f", "u", "n", " ", "o", "u", "t", "e", "r", " ", "(",
      ")", " ", "(", "d", "e", "f", "u", "n", " ", "i", "n", "n", "e", "r",
      " ", "(", ")", " ", "1", ")", ")", " ", "(", "o", "u", "t", "e", "r",
      ")", " ", "(", "f", "u", "n", "c", "a", "l", "l", " ", "'", "i", "n",
      "n", "e", "r", ")">>,
    <<"(", "l", "e", "t", " ", "(", "(", "a", " ", "1", ")", ")", " ", "(",
      "d", "e", "f", "u", "n", " ", "h", " ", "(", ")", " ", "a", ")", ")",
      " ", "(", "h", ")">>,
    <<"(", "l", "e", "t", " ", "(", "(", "a", " ", "1", ")", ")", " ", "(",
      "d", "e", "f", "u", "n", " ", "h", " ", "(", ")", " ", "a", ")", ")",
      " ", "(", "m", "a", "p", "c", "a", "r", " ", "'", "h", " ", "(", "l",
      "i", "s", "t", ")", ")">>
  }

\* a lambda made in a nested frame calls a helper defined later
\*   (setq f (let ((a 1)) (lambda (x) (helper x)))) (defun helper (y) y) (funcall f 1)
\*   (defun mk () (lambda (x) (helper x))) (setq f (mk)) (defun helper (y) y) (funcall f 1)
LateHelperPrograms ==
  {
    <<"(", "s", "e", "t", "q", " ", "f", " ", "(", "l", "e", "t", " ", "(",
      "(", "a", " ", "1", ")", ")", " ", "(", "l", "a", "m", "b", "d", "a",
      " ", "(", "x", ")", " ", "(", "h", "e", "l", "p", "e", "r", " ", "x",
      ")", ")", ")", ")", " ", "(", "d", "e", "f", "u", "n", " ", "h", "e",
      "l", "p", "e", "r", " ", "(", "y", ")", " ", "y", ")", " ", "(", "f",
      "u", "n", "c", "a", "l", "l", " ", "f", " ", "1", ")">>,
    <<"(", "d", "e", "f", "u", "n", " ", "m", "k", " ", "(", ")", " ", "(",
      "l", "a", "m", "b", "d", "a", " ", "(", "x", ")", " ", "(", "h", "e",
      "l", "p", "e", "r", " ", "x", ")", ")", ")", " ", "(", "s", "e", "t",
      "q", " ", "f", " ", "(", "m", "k", ")", ")", " ", "(", "d", "e", "f",
      "u", "n", " ", "h", "e", "l", "p", "e", "r", " ", "(", "y", ")", " ",
      "y", ")", " ", "(", "f", "u", "n", "c", "a", "l", "l", " ", "f", " ",
      "1", ")">>
  }

\* the same with the helper defined before the lambda is made
\*   (defun helper (y) y) (setq f (let ((a 1)) (lambda (x) (helper x)))) (funcall f 1)
EarlyHelperPrograms ==
  {
    <<"(", "d", "e", "f", "u", "n", " ", "h", "e", "l", "p", "e", "r", " ",
      "(", "y", ")", " ", "y", ")", " ", "(", "s", "e", "t", "q", " ", "f",
      " ", "(", "l", "e", "t", " ", "(", "(", "a", " ", "1", ")", ")", " ",
      "(", "l", "a", "m", "b", "d", "a", " ", "(", "x", ")", " ", "(", "h",
      "e", "l", "p", "e", "r", " ", "x", ")", ")", ")", ")", " ", "(", "f",
      "u", "n", "c", "a", "l", "l", " ", "f", " ", "1", ")">>
  }

\* forms whose values are the tests of if and cond and the operands of and and or
\*   0
\*   5
\*   -1
\*   nil
\*   (list 1)
\*   t
\*   (= 1 2)
\*   car
\*   (lambda (x) x)
\*   (quote "")
\*   'a
\*   (/ 0 0)
\*   (cond)
\*   (print)
TestForms ==
  {
    <<"0">>,
    <<"5">>,
    <<"-", "1">>,
    <<"n", "i", "l">>,
    <<"(", "l", "i", "s", "t", " ", "1", ")">>,
    <<"t">>,
    <<"(", "=", " ", "1", " ", "2", ")">>,
    <<"c", "a", "r">>,
    <<"(", "l", "a", "m", "b", "d", "a", " ", "(", "x", ")", " ", "x", ")">>,
    <<"(", "q", "u", "o", "t", "e", " ", "\"", "\"", ")">>,
    <<"'", "a">>,
    <<"(", "/", " ", "0", " ", "0", ")">>,
    <<"(", "c", "o", "n", "d", ")">>,
    <<"(", "p", "r", "i", "n", "t", ")">>
  }

\* those used in pairs
\*   0
\*   5
\*   nil
\*   t
\*   (= 1 2)
\*   (quote "")
\*   'a
\*   (cond)
PureForms ==
  {
    <<"0">>,
    <<"5">>,
    <<"n", "i", "l">>,
    <<"t">>,
    <<"(", "=", " ", "1", " ", "2", ")">>,
    <<"(", "q", "u", "o", "t", "e", " ", "\"", "\"", ")">>,
    <<"'", "a">>,
    <<"(", "c", "o", "n", "d", ")">>
  }

\* format
\*   (format t 'a)
\*   (format t (quote "n=%d") 5)
\*   (format nil 'a)
\*   (format (quote "t") (quote "x%sy%d") 1)
\*   (format (read-line) 'a)
\*   (format 't 'a)
FormatPrograms ==
  {
    <<"(", "f", "o", "r", "m", "a", "t", " ", "t", " ", "'", "a", ")">>,
    <<"(", "f", "o", "r", "m", "a", "t", " ", "t", " ", "(", "q", "u", "o",
      "t", "e", " ", "\"", "n", "=", "%", "d", "\"", ")", " ", "5", ")">>,
    <<"(", "f", "o", "r", "m", "a", "t", " ", "n", "i", "l", " ", "'", "a",
      ")">>,
    <<"(", "f", "o", "r", "m", "a", "t", " ", "(", "q", "u", "o", "t", "e",
      " ", "\"", "t", "\"", ")", " ", "(", "q", "u", "o", "t", "e", " ",
      "\"", "x", "%", "s", "y", "%", "d", "\"", ")", " ", "1", ")">>,
    <<"(", "f", "o", "r", "m", "a", "t", " ", "(", "r", "e", "a", "d", "-",
      "l", "i", "n", "e", ")", " ", "'", "a", ")">>,
    <<"(", "f", "o", "r", "m", "a", "t", " ", "'", "t", " ", "'", "a", ")">>
  }

\* case
\*   (case 1 ((2) 3) (t 4))
\*   (case 1 ((1) 3) (t 4))
\*   (case 5 ((2) 3) (otherwise 4))
\*   (case 'a ((a b) 1) (otherwise 2))
\*   (case 2 ((1) 3) ((2 3) 5))
\*   (case 7 ((1) 3))
CasePrograms ==
  {
    <<"(", "c", "a", "s", "e", " ", "1", " ", "(", "(", "2", ")", " ", "3",
      ")", " ", "(", "t", " ", "4", ")", ")">>,
    <<"(", "c", "a", "s", "e", " ", "1", " ", "(", "(", "1", ")", " ", "3",
      ")", " ", "(", "t", " ", "4", ")", ")">>,
    <<"(", "c", "a", "s", "e", " ", "5", " ", "(", "(", "2", ")", " ", "3",
      ")", " ", "(", "o", "t", "h", "e", "r", "w", "i", "s", "e", " ", "4",
      ")", ")">>,
    <<"(", "c", "a", "s", "e", " ", "'", "a", " ", "(", "(", "a", " ", "b",
      ")", " ", "1", ")", " ", "(", "o", "t", "h", "e", "r", "w", "i", "s",
      "e", " ", "2", ")", ")">>,
    <<"(", "c", "a", "s", "e", " ", "2", " ", "(", "(", "1", ")", " ", "3",
      ")", " ", "(", "(", "2", " ", "3", ")", " ", "5", ")", ")">>,
    <<"(", "c", "a", "s", "e", " ", "7", " ", "(", "(", "1", ")", " ", "3",
      ")", ")">>
  }

\* if without an else operand
\*   (if (= 1 2) 1)
\*   (if (= 1 1) 1)
\*   (if 0 1)
\*   (if)
IfPrograms2 ==
  {
    <<"(", "i", "f", " ", "(", "=", " ", "1", " ", "2", ")", " ", "1", ")">>,
    <<"(", "i", "f", " ", "(", "=", " ", "1", " ", "1", ")", " ", "1", ")">>,
    <<"(", "i", "f", " ", "0", " ", "1", ")">>,
    <<"(", "i", "f", ")">>
  }

\* reader errors, quote and read-line
\*   (print 1
\*   )
\*   (print '
\*   '(1 2)
\*   ((1 2) (3
\*   '(
\*   (print 1) )
\*   (
\*   (a (b '
\*   (read-line) (print (read-line))
\*   (read-line) (print "abc
\*   (read-line) (print 1
\*   (read-line) )
\*   (print 1) (read-line) "
ReaderPrograms ==
  {
    <<"(", "r", "e", "a", "d", "-", "l", "i", "n", "e", ")", " ", "(", "p",
      "r", "i", "n", "t", " ", "\"", "a", "b", "c">>,
    <<"(", "r", "e", "a", "d", "-", "l", "i", "n", "e", ")", " ", "(", "p",
      "r", "i", "n", "t", " ", "1">>,
    <<"(", "r", "e", "a", "d", "-", "l", "i", "n", "e", ")", " ", ")">>,
    <<"(", "p", "r", "i", "n", "t", " ", "1", ")", " ", "(", "r", "e", "a",
      "d", "-", "l", "i", "n", "e", ")", " ", "\"">>,
    <<"(", "(", "1", " ", "2", ")", " ", "(", "3">>,
    <<"'", "(">>,
    <<"(", "p", "r", "i", "n", "t", " ", "1", ")", " ", ")">>,
    <<"(">>,
    <<"(", "a", " ", "(", "b", " ", "'">>,
    <<"(", "p", "r", "i", "n", "t", " ", "1">>,
    <<")">>,
    <<"(", "p", "r", "i", "n", "t", " ", "'">>,
    <<"'", "(", "1", " ", "2", ")">>,
    <<"(", "r", "e", "a", "d", "-", "l", "i", "n", "e", ")", " ", "(", "p",
      "r", "i", "n", "t", " ", "(", "r", "e", "a", "d", "-", "l", "i", "n",
      "e", ")", ")">>
  }

\* (if T 10 20) for the test T
IfProgram(T) ==
  <<"(", "i", "f", " ">> \o T \o <<" ", "1", "0", " ", "2", "0", ")">>

\* (cond (T 10) (t 20)) for the test T
CondProgram(T) ==
  <<"(", "c", "o", "n", "d", " ", "(">> \o T
  \o <<" ", "1", "0", ")", " ", "(", "t", " ", "2", "0", ")", ")">>

\* (or A B) and (and A B) for the operands A and B
OrProgram(A, B) == <<"(", "o", "r", " ">> \o A \o <<" ">> \o B \o <<")">>
AndProgram(A, B) == <<"(", "a", "n", "d", " ">> \o A \o <<" ">> \o B \o <<")">>

\* (or A), (and A), (or) and (and)
ShortPrograms ==
  {<<"(", "o", "r", " ">> \o A \o <<")">> : A \in TestForms}
  \cup {<<"(", "a", "n", "d", " ">> \o A \o <<")">> : A \in TestForms}
  \cup {<<"(", "o", "r", ")">>, <<"(", "a", "n", "d", ")">>}

\* an error after the line 1 was printed, with forms that would print or read after it
\*   (print 1) (foo) (print 2)
\*   (progn (print 1) (foo) (print 2))
\*   (print 1) (print 2
\*   (print 1) (car 5) (read-line)
\*   (print 1) (+ 1 (foo) (read-line))
AbortPrograms ==
  {
    <<"(", "p", "r", "i", "n", "t", " ", "1", ")", " ", "(", "f", "o", "o",
      ")", " ", "(", "p", "r", "i", "n", "t", " ", "2", ")">>,
    <<"(", "p", "r", "o", "g", "n", " ", "(", "p", "r", "i", "n", "t", " ",
      "1", ")", " ", "(", "f", "o", "o", ")", " ", "(", "p", "r", "i", "n",
      "t", " ", "2", ")", ")">>,
    <<"(", "p", "r", "i", "n", "t", " ", "1", ")", " ", "(", "p", "r", "i",
      "n", "t", " ", "2">>,
    <<"(", "p", "r", "i", "n", "t", " ", "1", ")", " ", "(", "c", "a", "r",
      " ", "5", ")", " ", "(", "r", "e", "a", "d", "-", "l", "i", "n", "e",
      ")">>,
    <<"(", "p", "r", "i", "n", "t", " ", "1", ")", " ", "(", "+", " ", "1",
      " ", "(", "f", "o", "o", ")", " ", "(", "r", "e", "a", "d", "-", "l",
      "i", "n", "e", ")", ")">>
  }

\* + on operands that are not all numbers
\*   (+ 1 "a")
\*   (+ 1 'a)
\*   (+ 1 nil)
\*   (+ t 1)
\*   (+ 1 2)
\*   (+)
\*   (print (+ 1 (list 2)))
PlusPrograms ==
  {
    <<"(", "+", " ", "1", " ", "\"", "a", "\"", ")">>,
    <<"(", "+", " ", "1", " ", "'", "a", ")">>,
    <<"(", "+", " ", "1", " ", "n", "i", "l", ")">>,
    <<"(", "+", " ", "t", " ", "1", ")">>,
    <<"(", "+", " ", "1", " ", "2", ")">>,
    <<"(", "+", ")">>,
    <<"(", "p", "r", "i", "n", "t", " ", "(", "+", " ", "1", " ", "(", "l",
      "i", "s", "t", " ", "2", ")", ")", ")">>
  }

\* symbols that are bound and symbols that are not
\*   foo
\*   (foo 1)
\*   toString
\*   (print constructor)
\*   (setq x 1) x y
\*   (print (list foo))
\*   car
SymbolPrograms ==
  {
    <<"f", "o", "o">>,
    <<"(", "f", "o", "o", " ", "1", ")">>,
    <<"t", "o", "S", "t", "r", "i", "n", "g">>,
    <<"(", "p", "r", "i", "n", "t", " ", "c", "o", "n", "s", "t", "r", "u",
      "c", "t", "o", "r", ")">>,
    <<"(", "s", "e", "t", "q", " ", "x", " ", "1", ")", " ", "x", " ", "y">>,
    <<"(", "p", "r", "i", "n", "t", " ", "(", "l", "i", "s", "t", " ", "f",
      "o", "o", ")", ")">>,
    <<"c", "a", "r">>
  }

\* programs whose last form calls a lambda that a let returned; the let binds a to 1 when it exits
\*   (setq f (let ((a 1)) (lambda () a))) (f)
\*   (setq f (let ((a 1)) (lambda () a))) (setq a 9) (f)
\*   (setq f (let ((a 5) (b 2)) (setq a 1) (lambda () a))) (funcall f)
\*   (setq f (let ((a 1)) (lambda (x) (- x a)))) (f 2)
\*   (defun mk () (let ((a 1)) (lambda () a))) (setq f (mk)) (f)
LetClosurePrograms ==
  {
    <<"(", "s", "e", "t", "q", " ", "f", " ", "(", "l", "e", "t", " ", "(",
      "(", "a", " ", "1", ")", ")", " ", "(", "l", "a", "m", "b", "d", "a",
      " ", "(", ")", " ", "a", ")", ")", ")", " ", "(", "f", ")">>,
    <<"(", "s", "e", "t", "q", " ", "f", " ", "(", "l", "e", "t", " ", "(",
      "(", "a", " ", "1", ")", ")", " ", "(", "l", "a", "m", "b", "d", "a",
      " ", "(", ")", " ", "a", ")", ")", ")", " ", "(", "s", "e", "t", "q",
      " ", "a", " ", "9", ")", " ", "(", "f", ")">>,
    <<"(", "s", "e", "t", "q", " ", "f", " ", "(", "l", "e", "t", " ", "(",
      "(", "a", " ", "5", ")", " ", "(", "b", " ", "2", ")", ")", " ", "(",
      "s", "e", "t", "q", " ", "a", " ", "1", ")", " ", "(", "l", "a", "m",
      "b", "d", "a", " ", "(", ")", " ", "a", ")", ")", ")", " ", "(", "f",
      "u", "n", "c", "a", "l", "l", " ", "f", ")">>,
    <<"(", "s", "e", "t", "q", " ", "f", " ", "(", "l", "e", "t", " ", "(",
      "(", "a", " ", "1", ")", ")", " ", "(", "l", "a", "m", "b", "d", "a",
      " ", "(", "x", ")", " ", "(", "-", " ", "x", " ", "a", ")", ")", ")",
      ")", " ", "(", "f", " ", "2", ")">>,
    <<"(", "d", "e", "f", "u", "n", " ", "m", "k", " ", "(", ")", " ", "(",
      "l", "e", "t", " ", "(", "(", "a", " ", "1", ")", ")", " ", "(", "l",
      "a", "m", "b", "d", "a", " ", "(", ")", " ", "a", ")", ")", ")", " ",
      "(", "s", "e", "t", "q", " ", "f", " ", "(", "m", "k", ")", ")", " ",
      "(", "f", ")">>
  }

\* do loops that exchange two variables in their step forms
\*   (do ((a 1 b) (b 2 a)) ((= a 2) (print a) (print b)))
\*   (do ((a 1 b) (b 2 a) (k 0 (+ k 1))) ((= k 3) (print a) (print b)))
\*   (do ((i 5 0)) ((= i 0)))
\*   (do ((i 5 0) (k 0 (+ k 1))) ((= k 2) (print i)))
\*   (do ((i 5) (k 0 (+ k 1))) ((= k 2) (print i)))
\*   (do ((i 5 1)) ((= i 1) (print i)))
DoPrograms ==
  {
    <<"(", "d", "o", " ", "(", "(", "i", " ", "5", " ", "0", ")", ")", " ",
      "(", "(", "=", " ", "i", " ", "0", ")", ")", ")">>,
    <<"(", "d", "o", " ", "(", "(", "i", " ", "5", " ", "0", ")", " ", "(",
      "k", " ", "0", " ", "(", "+", " ", "k", " ", "1", ")", ")", ")", " ",
      "(", "(", "=", " ", "k", " ", "2", ")", " ", "(", "p", "r", "i", "n",
      "t", " ", "i", ")", ")", ")">>,
    <<"(", "d", "o", " ", "(", "(", "i", " ", "5", ")", " ", "(", "k", " ",
      "0", " ", "(", "+", " ", "k", " ", "1", ")", ")", ")", " ", "(", "(",
      "=", " ", "k", " ", "2", ")", " ", "(", "p", "r", "i", "n", "t", " ",
      "i", ")", ")", ")">>,
    <<"(", "d", "o", " ", "(", "(", "i", " ", "5", " ", "1", ")", ")", " ",
      "(", "(", "=", " ", "i", " ", "1", ")", " ", "(", "p", "r", "i", "n",
      "t", " ", "i", ")", ")", ")">>,
    <<"(", "d", "o", " ", "(", "(", "a", " ", "1", " ", "b", ")", " ", "(",
      "b", " ", "2", " ", "a", ")", ")", " ", "(", "(", "=", " ", "a", " ",
      "2", ")", " ", "(", "p", "r", "i", "n", "t", " ", "a", ")", " ", "(",
      "p", "r", "i", "n", "t", " ", "b", ")", ")", ")">>,
    <<"(", "d", "o", " ", "(", "(", "a", " ", "1", " ", "b", ")", " ", "(",
      "b", " ", "2", " ", "a", ")", " ", "(", "k", " ", "0", " ", "(", "+",
      " ", "k", " ", "1", ")", ")", ")", " ", "(", "(", "=", " ", "k", " ",
      "3", ")", " ", "(", "p", "r", "i", "n", "t", " ", "a", ")", " ", "(",
      "p", "r", "i", "n", "t", " ", "b", ")", ")", ")">>
  }

\* the step forms of the loops of DoProgram: a, b and (+ a b)
StepForms ==
  {
    <<"a">>,
    <<"b">>,
    <<"(", "+", " ", "a", " ", "b", ")">>
  }

\* the numbers of turns of the loops of DoProgram
TurnCounts == {<<"0">>, <<"1">>, <<"2">>}

\* (do ((a 1 A) (b 2 B) (k 0 (+ k 1))) ((= k N) (list a b))) for the step
\* forms A and B and the number of turns N
DoProgram(A, B, N) ==
  <<"(", "d", "o", " ", "(", "(", "a", " ", "1", " ">> \o A
  \o <<")", " ", "(", "b", " ", "2", " ">> \o B
  \o <<")", " ", "(", "k", " ", "0", " ", "(", "+", " ", "k", " ", "1", ")",
      ")", ")", " ", "(", "(", "=", " ", "k", " ">>
  \o N \o <<")", " ", "(", "l", "i", "s", "t", " ", "a", " ", "b", ")", ")", ")">>

\* programs that call print, prin1, exit and bye: at top level, nested, in a function and in a loop
\*   (prin1 5) (exit) (print 1 2) (bye)
\*   (print (print 1))
\*   (print)
\*   (dotimes (k 3) (print k))
\*   (print 1) (setq x (list 1 2)) (setf (car x) 9) (print x) (print 'a)
\*   (prin1)
\*   (defun f (n) (print n) (prin1 (+ n 1))) (f 1) (exit 3) (f 5)
\*   (exit) (print 1)
\*   (bye) (print 2) (read-line)
\*   (print (exit))
\*   (defun g () (bye) 7) (print (g)) (print 3)
OutputPrograms ==
  {
    <<"(", "e", "x", "i", "t", ")", " ", "(", "p", "r", "i", "n", "t", " ",
      "1", ")">>,
    <<"(", "b", "y", "e", ")", " ", "(", "p", "r", "i", "n", "t", " ", "2",
      ")", " ", "(", "r", "e", "a", "d", "-", "l", "i", "n", "e", ")">>,
    <<"(", "p", "r", "i", "n", "t", " ", "(", "e", "x", "i", "t", ")", ")">>,
    <<"(", "d", "e", "f", "u", "n", " ", "g", " ", "(", ")", " ", "(", "b",
      "y", "e", ")", " ", "7", ")", " ", "(", "p", "r", "i", "n", "t", " ",
      "(", "g", ")", ")", " ", "(", "p", "r", "i", "n", "t", " ", "3", ")">>,
    <<"(", "p", "r", "i", "n", "1", " ", "5", ")", " ", "(", "e", "x", "i",
      "t", ")", " ", "(", "p", "r", "i", "n", "t", " ", "1", " ", "2", ")",
      " ", "(", "b", "y", "e", ")">>,
    <<"(", "p", "r", "i", "n", "t", " ", "(", "p", "r", "i", "n", "t", " ",
      "1", ")", ")">>,
    <<"(", "p", "r", "i", "n", "t", ")">>,
    <<"(", "d", "o", "t", "i", "m", "e", "s", " ", "(", "k", " ", "3", ")",
      " ", "(", "p", "r", "i", "n", "t", " ", "k", ")", ")">>,
    <<"(", "p", "r", "i", "n", "t", " ", "1", ")", " ", "(", "s", "e", "t",
      "q", " ", "x", " ", "(", "l", "i", "s", "t", " ", "1", " ", "2", ")",
      ")", " ", "(", "s", "e", "t", "f", " ", "(", "c", "a", "r", " ", "x",
      ")", " ", "9", ")", " ", "(", "p", "r", "i", "n", "t", " ", "x", ")",
      " ", "(", "p", "r", "i", "n", "t", " ", "'", "a", ")">>,
    <<"(", "p", "r", "i", "n", "1", ")">>,
    <<"(", "d", "e", "f", "u", "n", " ", "f", " ", "(", "n", ")", " ", "(",
      "p", "r", "i", "n", "t", " ", "n", ")", " ", "(", "p", "r", "i", "n",
      "1", " ", "(", "+", " ", "n", " ", "1", ")", ")", ")", " ", "(", "f",
      " ", "1", ")", " ", "(", "e", "x", "i", "t", " ", "3", ")", " ", "(",
      "f", " ", "5", ")">>
  }

\* setf of (car L) and (nth i L): on a list with an alias, a parameter and a captured variable, and on invalid places
\*   (setq x (list 1 2 3)) (setq y x) (setf (car x) 9) (print y)
\*   (setq x (list 1 2 3)) (defun g (l) (setf (nth 1 l) 7)) (g x) (print x)
\*   (setq x (list 1 2)) (setq f (let ((l x)) (lambda () l))) (setf (nth 1 x) 5) (print (f))
\*   (setq x (list 1 2)) (setq y x) (setf (nth 2 x) 9)
\*   (setq x (list 1 2)) (setf (nth -1 x) 9)
\*   (setq x (list)) (setf (car x) 9)
\*   (setf (car 5) 1)
\*   (setq x 5) (setf (nth 0 x) 1)
\*   (setq x (list 1 2)) (setf (nth (/ 0 0) x) 9) (print x)
\*   (setq x (list 1 2)) (setf (nth (/ 1 2) x) 9)
SetfPrograms ==
  {
    <<"(", "s", "e", "t", "q", " ", "x", " ", "(", "l", "i", "s", "t", " ",
      "1", " ", "2", " ", "3", ")", ")", " ", "(", "s", "e", "t", "q", " ",
      "y", " ", "x", ")", " ", "(", "s", "e", "t", "f", " ", "(", "c", "a",
      "r", " ", "x", ")", " ", "9", ")", " ", "(", "p", "r", "i", "n", "t",
      " ", "y", ")">>,
    <<"(", "s", "e", "t", "q", " ", "x", " ", "(", "l", "i", "s", "t", " ",
      "1", " ", "2", " ", "3", ")", ")", " ", "(", "d", "e", "f", "u", "n",
      " ", "g", " ", "(", "l", ")", " ", "(", "s", "e", "t", "f", " ", "(",
      "n", "t", "h", " ", "1", " ", "l", ")", " ", "7", ")", ")", " ", "(",
      "g", " ", "x", ")", " ", "(", "p", "r", "i", "n", "t", " ", "x", ")">>,
    <<"(", "s", "e", "t", "q", " ", "x", " ", "(", "l", "i", "s", "t", " ",
      "1", " ", "2", ")", ")", " ", "(", "s", "e", "t", "q", " ", "f", " ",
      "(", "l", "e", "t", " ", "(", "(", "l", " ", "x", ")", ")", " ", "(",
      "l", "a", "m", "b", "d", "a", " ", "(", ")", " ", "l", ")", ")", ")",
      " ", "(", "s", "e", "t", "f", " ", "(", "n", "t", "h", " ", "1", " ",
      "x", ")", " ", "5", ")", " ", "(", "p", "r", "i", "n", "t", " ", "(",
      "f", ")", ")">>,
    <<"(", "s", "e", "t", "q", " ", "x", " ", "(", "l", "i", "s", "t", " ",
      "1", " ", "2", ")", ")", " ", "(", "s", "e", "t", "q", " ", "y", " ",
      "x", ")", " ", "(", "s", "e", "t", "f", " ", "(", "n", "t", "h", " ",
      "2", " ", "x", ")", " ", "9", ")">>,
    <<"(", "s", "e", "t", "q", " ", "x", " ", "(", "l", "i", "s", "t", " ",
      "1", " ", "2", ")", ")", " ", "(", "s", "e", "t", "f", " ", "(", "n",
      "t", "h", " ", "-", "1", " ", "x", ")", " ", "9", ")">>,
    <<"(", "s", "e", "t", "q", " ", "x", " ", "(", "l", "i", "s", "t", ")",
      ")", " ", "(", "s", "e", "t", "f", " ", "(", "c", "a", "r", " ", "x",
      ")", " ", "9", ")">>,
    <<"(", "s", "e", "t", "f", " ", "(", "c", "a", "r", " ", "5", ")", " ",
      "1", ")">>,
    <<"(", "s", "e", "t", "q", " ", "x", " ", "5", ")", " ", "(", "s", "e",
      "t", "f", " ", "(", "n", "t", "h", " ", "0", " ", "x", ")", " ", "1",
      ")">>,
    <<"(", "s", "e", "t", "q", " ", "x", " ", "(", "l", "i", "s", "t", " ",
      "1", " ", "2", ")", ")", " ", "(", "s", "e", "t", "f", " ", "(", "n",
      "t", "h", " ", "(", "/", " ", "0", " ", "0", ")", " ", "x", ")", " ",
      "9", ")", " ", "(", "p", "r", "i", "n", "t", " ", "x", ")">>,
    <<"(", "s", "e", "t", "q", " ", "x", " ", "(", "l", "i", "s", "t", " ",
      "1", " ", "2", ")", ")", " ", "(", "s", "e", "t", "f", " ", "(", "n",
      "t", "h", " ", "(", "/", " ", "1", " ", "2", ")", " ", "x", ")", " ",
      "9", ")">>
  }

\* a function whose body is the quoted list (1 2 3), called again after its first value was used; the last form prints the second value
\*   (defun f () '(1 2 3)) (f) (print (f))
\*   (defun f () '(1 2 3)) (setf (car (f)) 9) (print (f))
\*   (defun f () (quote (1 2 3))) (setq x (f)) (setf (nth 2 x) 0) (print (f))
\*   (defun f () '(1 2 3)) (print (cdr (f))) (print (f))
QuotePrograms ==
  {
    <<"(", "d", "e", "f", "u", "n", " ", "f", " ", "(", ")", " ", "'", "(",
      "1", " ", "2", " ", "3", ")", ")", " ", "(", "f", ")", " ", "(", "p",
      "r", "i", "n", "t", " ", "(", "f", ")", ")">>,
    <<"(", "d", "e", "f", "u", "n", " ", "f", " ", "(", ")", " ", "'", "(",
      "1", " ", "2", " ", "3", ")", ")", " ", "(", "s", "e", "t", "f", " ",
      "(", "c", "a", "r", " ", "(", "f", ")", ")", " ", "9", ")", " ", "(",
      "p", "r", "i", "n", "t", " ", "(", "f", ")", ")">>,
    <<"(", "d", "e", "f", "u", "n", " ", "f", " ", "(", ")", " ", "(", "q",
      "u", "o", "t", "e", " ", "(", "1", " ", "2", " ", "3", ")", ")", ")",
      " ", "(", "s", "e", "t", "q", " ", "x", " ", "(", "f", ")", ")", " ",
      "(", "s", "e", "t", "f", " ", "(", "n", "t", "h", " ", "2", " ", "x",
      ")", " ", "0", ")", " ", "(", "p", "r", "i", "n", "t", " ", "(", "f",
      ")", ")">>,
    <<"(", "d", "e", "f", "u", "n", " ", "f", " ", "(", ")", " ", "'", "(",
      "1", " ", "2", " ", "3", ")", ")", " ", "(", "p", "r", "i", "n", "t",
      " ", "(", "c", "d", "r", " ", "(", "f", ")", ")", ")", " ", "(", "p",
      "r", "i", "n", "t", " ", "(", "f", ")", ")">>
  }

\* and / or whose later operands would print, read a line, assign or fail
\*   (and (= 1 2) (print 1))
\*   (or 5 (read-line))
\*   (and (print 1) (print 0) (print 2))
\*   (or (setq x 5) (setq y 6)) (print x)
\*   (and (setq x 0) (setq x 7)) (print x)
\*   (or (= 1 2) (print 0) (print 4) (print 5))
\*   (and t (foo))
\*   (or nil (print 3))
\*   (and (or (print 0) (= 1 2)) (print 9))
ShortCircuitPrograms ==
  {
    <<"(", "a", "n", "d", " ", "(", "=", " ", "1", " ", "2", ")", " ", "(",
      "p", "r", "i", "n", "t", " ", "1", ")", ")">>,
    <<"(", "o", "r", " ", "5", " ", "(", "r", "e", "a", "d", "-", "l", "i",
      "n", "e", ")", ")">>,
    <<"(", "a", "n", "d", " ", "(", "p", "r", "i", "n", "t", " ", "1", ")",
      " ", "(", "p", "r", "i", "n", "t", " ", "0", ")", " ", "(", "p", "r",
      "i", "n", "t", " ", "2", ")", ")">>,
    <<"(", "o", "r", " ", "(", "s", "e", "t", "q", " ", "x", " ", "5", ")",
      " ", "(", "s", "e", "t", "q", " ", "y", " ", "6", ")", ")", " ", "(",
      "p", "r", "i", "n", "t", " ", "x", ")">>,
    <<"(", "a", "n", "d", " ", "(", "s", "e", "t", "q", " ", "x", " ", "0",
      ")", " ", "(", "s", "e", "t", "q", " ", "x", " ", "7", ")", ")", " ",
      "(", "p", "r", "i", "n", "t", " ", "x", ")">>,
    <<"(", "o", "r", " ", "(", "=", " ", "1", " ", "2", ")", " ", "(", "p",
      "r", "i", "n", "t", " ", "0", ")", " ", "(", "p", "r", "i", "n", "t",
      " ", "4", ")", " ", "(", "p", "r", "i", "n", "t", " ", "5", ")", ")">>,
    <<"(", "a", "n", "d", " ", "t", " ", "(", "f", "o", "o", ")", ")">>,
    <<"(", "o", "r", " ", "n", "i", "l", " ", "(", "p", "r", "i", "n", "t",
      " ", "3", ")", ")">>,
    <<"(", "a", "n", "d", " ", "(", "o", "r", " ", "(", "p", "r", "i", "n",
      "t", " ", "0", ")", " ", "(", "=", " ", "1", " ", "2", ")", ")", " ",
      "(", "p", "r", "i", "n", "t", " ", "9", ")", ")">>
  }

\* dotimes without a result form, with a computed count and with counts that are negative or no number
\*   (dotimes (k 2) (print k))
\*   (dotimes (k (+ 1 1) (print k)) (setq k 9))
\*   (print 1) (dotimes (k -1) (print k))
\*   (dotimes (k 'a) (print k))
\*   (dotimes (k nil (print 5)) (print k))
\*   (dotimes (k (print -2) (print 5)) (print k))
\*   (print (dotimes (k 2 0) (print k)))
DotimesPrograms ==
  {
    <<"(", "d", "o", "t", "i", "m", "e", "s", " ", "(", "k", " ", "2", ")",
      " ", "(", "p", "r", "i", "n", "t", " ", "k", ")", ")">>,
    <<"(", "d", "o", "t", "i", "m", "e", "s", " ", "(", "k", " ", "(", "+",
      " ", "1", " ", "1", ")", " ", "(", "p", "r", "i", "n", "t", " ", "k",
      ")", ")", " ", "(", "s", "e", "t", "q", " ", "k", " ", "9", ")", ")">>,
    <<"(", "p", "r", "i", "n", "t", " ", "1", ")", " ", "(", "d", "o", "t",
      "i", "m", "e", "s", " ", "(", "k", " ", "-", "1", ")", " ", "(", "p",
      "r", "i", "n", "t", " ", "k", ")", ")">>,
    <<"(", "d", "o", "t", "i", "m", "e", "s", " ", "(", "k", " ", "'", "a",
      ")", " ", "(", "p", "r", "i", "n", "t", " ", "k", ")", ")">>,
    <<"(", "d", "o", "t", "i", "m", "e", "s", " ", "(", "k", " ", "n", "i",
      "l", " ", "(", "p", "r", "i", "n", "t", " ", "5", ")", ")", " ", "(",
      "p", "r", "i", "n", "t", " ", "k", ")", ")">>,
    <<"(", "d", "o", "t", "i", "m", "e", "s", " ", "(", "k", " ", "(", "p",
      "r", "i", "n", "t", " ", "-", "2", ")", " ", "(", "p", "r", "i", "n",
      "t", " ", "5", ")", ")", " ", "(", "p", "r", "i", "n", "t", " ", "k",
      ")", ")">>,
    <<"(", "p", "r", "i", "n", "t", " ", "(", "d", "o", "t", "i", "m", "e",
      "s", " ", "(", "k", " ", "2", " ", "0", ")", " ", "(", "p", "r", "i",
      "n", "t", " ", "k", ")", ")", ")">>
  }

\* the bodies of the loops of DotimesProgram: one that prints k, and two that
\* also assign k
\*   (print k)
\*   (print k) (setq k 7)
\*   (setq k (+ k 5)) (print (- k 5))
DotimesBodies ==
  {
    <<"(", "p", "r", "i", "n", "t", " ", "k", ")">>,
    <<"(", "p", "r", "i", "n", "t", " ", "k", ")", " ", "(", "s", "e", "t",
      "q", " ", "k", " ", "7", ")">>,
    <<"(", "s", "e", "t", "q", " ", "k", " ", "(", "+", " ", "k", " ", "5",
      ")", ")", " ", "(", "p", "r", "i", "n", "t", " ", "(", "-", " ", "k",
      " ", "5", ")", ")">>
  }

\* (print (dotimes (k N k) BODY)) for the count N and the body BODY
DotimesProgram(N, BODY) ==
  <<"(", "p", "r", "i", "n", "t", " ", "(", "d", "o", "t", "i", "m", "e",
      "s", " ", "(", "k", " ">> \o N
  \o <<" ", "k", ")", " ">> \o BODY \o <<")", ")">>

\* top-level defuns that use names bound after them, call each other and bind a parameter named like a root variable; each program prints 7
\*   (defun f () (g)) (defun g () 7) (print (f))
\*   (defun f () x) (setq x 3) (f) (setq x 7) (print (f))
\*   (setq n 7) (defun f (n) (setq n (+ n 1)) n) (f 5) (print n)
\*   (defun ev (n) (if (= n 0) 7 (od (- n 1)))) (defun od (n) (if (= n 0) 0 (ev (- n 1)))) (print (ev 2))
\*   (defun f (x) (defun x () 1) 0) (setq x 7) (f 2) (print x)
TopDefunPrograms ==
  {
    <<"(", "d", "e", "f", "u", "n", " ", "f", " ", "(", ")", " ", "(", "g",
      ")", ")", " ", "(", "d", "e", "f", "u", "n", " ", "g", " ", "(", ")",
      " ", "7", ")", " ", "(", "p", "r", "i", "n", "t", " ", "(", "f", ")",
      ")">>,
    <<"(", "d", "e", "f", "u", "n", " ", "f", " ", "(", ")", " ", "x", ")",
      " ", "(", "s", "e", "t", "q", " ", "x", " ", "3", ")", " ", "(", "f",
      ")", " ", "(", "s", "e", "t", "q", " ", "x", " ", "7", ")", " ", "(",
      "p", "r", "i", "n", "t", " ", "(", "f", ")", ")">>,
    <<"(", "s", "e", "t", "q", " ", "n", " ", "7", ")", " ", "(", "d", "e",
      "f", "u", "n", " ", "f", " ", "(", "n", ")", " ", "(", "s", "e", "t",
      "q", " ", "n", " ", "(", "+", " ", "n", " ", "1", ")", ")", " ", "n",
      ")", " ", "(", "f", " ", "5", ")", " ", "(", "p", "r", "i", "n", "t",
      " ", "n", ")">>,
    <<"(", "d", "e", "f", "u", "n", " ", "e", "v", " ", "(", "n", ")", " ",
      "(", "i", "f", " ", "(", "=", " ", "n", " ", "0", ")", " ", "7", " ",
      "(", "o", "d", " ", "(", "-", " ", "n", " ", "1", ")", ")", ")", ")",
      " ", "(", "d", "e", "f", "u", "n", " ", "o", "d", " ", "(", "n", ")",
      " ", "(", "i", "f", " ", "(", "=", " ", "n", " ", "0", ")", " ", "0",
      " ", "(", "e", "v", " ", "(", "-", " ", "n", " ", "1", ")", ")", ")",
      ")", " ", "(", "p", "r", "i", "n", "t", " ", "(", "e", "v", " ", "2",
      ")", ")">>,
    <<"(", "d", "e", "f", "u", "n", " ", "f", " ", "(", "x", ")", " ", "(",
      "d", "e", "f", "u", "n", " ", "x", " ", "(", ")", " ", "1", ")", " ",
      "0", ")", " ", "(", "s", "e", "t", "q", " ", "x", " ", "7", ")", " ",
      "(", "f", " ", "2", ")", " ", "(", "p", "r", "i", "n", "t", " ", "x",
      ")">>
  }

\* the characters of the enumerated source texts: an atom character, a
\* space, a parenthesis, a double quote, a semicolon, a backslash and a quote
LexerAlphabet == {"a", " ", "(", "\"", ";", "\\", "'"}

\* every source text of 1 to MaxTextLen characters of LexerAlphabet
LexerTexts == UNION {[1..n -> LexerAlphabet] : n \in 1..MaxTextLen}

Programs ==
  {ExampleArithmetic, ExampleFactorial}
  \cup ListPrograms \cup StringPrograms \cup CommentPrograms
  \cup AssignPrograms \cup DefunPrograms \cup LateHelperPrograms
  \cup EarlyHelperPrograms \cup FormatPrograms \cup CasePrograms
  \cup IfPrograms2 \cup ReaderPrograms \cup ShortPrograms
  \cup {IfProgram(T) : T \in TestForms} \cup {CondProgram(T) : T \in TestForms}
  \cup {OrProgram(A, B) : A \in PureForms, B \in PureForms}
  \cup {AndProgram(A, B) : A \in PureForms, B \in PureForms}
  \cup LexerTexts
  \cup TopDefunPrograms
  \cup {DotimesProgram(N, BODY) : N \in TurnCounts, BODY \in DotimesBodies}
  \cup DotimesPrograms
  \cup ShortCircuitPrograms
  \cup QuotePrograms
  \cup SetfPrograms
  \cup OutputPrograms
  \cup {DoProgram(A, B, N) : A \in StepForms, B \in StepForms, N \in TurnCounts}
  \cup DoPrograms
  \cup LetClosurePrograms
  \cup SymbolPrograms
  \cup PlusPrograms
  \cup AbortPrograms

\* The input providers: none, and the one of src/src/app/page.tsx over the
\* user input "t\nhello".
Providers ==
  {[present |-> FALSE, lines |-> <<>>],
   [present |-> TRUE, lines |-> <<<<"t">>, <<"h", "e", "l", "l", "o">>>>]}

Init ==
  /\ program \in Programs
  /\ inputProvider \in Providers
  /\ pc = "tokenize"
  /\ i = 0
  /\ tokens = <<>>
  /\ currentTokens = <<>>
  /\ heap = <<>>
  /\ frames = <<>>
  /\ outputBuffer = <<>>
  /\ reads = 0
  /\ fnCount = 0
  /\ parsed = Undefined
  /\ result = Undefined
  /\ error = ""
  /\ returned = ""

\* lines 45-102: one iteration of the loop of tokenize.
Tokenize ==
  /\ pc = "tokenize"
  /\ i < Len(program)
  /\ LET r == TokenizeIteration(program, i, tokens)
     IN  /\ i' = r.i
         /\ tokens' = r.tokens
         /\ error' = r.error
         /\ pc' = IF r.error # "" THEN "thrown" ELSE "tokenize"
  /\ UNCHANGED <<program, inputProvider, currentTokens, heap, frames,
                 outputBuffer, reads, fnCount, parsed, result, returned>>

\* lines 104 and 1010-1017: tokenize returns; with no token the empty text is
\* returned, otherwise the output buffer is cleared, the environment is
\* created and the tokens are copied.
Start ==
  /\ pc = "tokenize"
  /\ i >= Len(program)
  /\ IF tokens = <<>>
     THEN /\ pc' = "returned"
          /\ returned' = ""
          /\ UNCHANGED <<currentTokens, heap, frames, outputBuffer>>
     ELSE /\ pc' = "loop"
          /\ outputBuffer' = <<>>
          /\ heap' = <<<<>>>>
          /\ frames' = <<InitialEnv, InitialEnv>>
          /\ currentTokens' = tokens
          /\ UNCHANGED returned
  /\ UNCHANGED <<program, inputProvider, i, tokens, reads, fnCount, parsed,
                 result, error>>

\* The error of the first form of toks that cannot be read, "" when all can.
FirstReaderError(toks, hp) ==
  IF toks = <<>> THEN ""
  ELSE LET r == parse(toks, hp)
       IN  IF r.error # "" THEN r.error ELSE FirstReaderError(r.tokens, r.heap)

\* a driver that reads every form before it evaluates the first
ReadAhead ==
  /\ pc = "loop"
  /\ currentTokens # <<>>
  /\ LET r == parse(currentTokens, heap)
         e == FirstReaderError(currentTokens, heap)
     IN  /\ currentTokens' = r.tokens
         /\ heap' = r.heap
         /\ error' = e
         /\ parsed' = IF e # "" THEN parsed ELSE r.v
         /\ pc' = IF e # "" THEN "thrown" ELSE "evaluate"
  /\ UNCHANGED <<program, inputProvider, i, tokens, frames, outputBuffer,
                 reads, fnCount, result, returned>>

\* lines 1020-1021: the next top-level form is read.
Read ==
  /\ pc = "loop"
  /\ currentTokens # <<>>
  /\ LET r == parse(currentTokens, heap)
     IN  /\ currentTokens' = r.tokens
         /\ heap' = r.heap
         /\ error' = r.error
         /\ parsed' = IF r.error # "" THEN parsed ELSE r.v
         /\ pc' = IF r.error # "" THEN "thrown" ELSE "evaluate"
  /\ UNCHANGED <<program, inputProvider, i, tokens, frames, outputBuffer,
                 reads, fnCount, result, returned>>

\* Line 1022 had the loop caught the error of a form and gone on to the next
\* form.
EvaluateAndGoOn ==
  /\ pc = "evaluate"
  /\ LET r == evaluate(parsed, RootEnv, Machine)
     IN  /\ heap' = r.m.heap
         /\ frames' = r.m.frames
         /\ outputBuffer' = r.m.out
         /\ reads' = r.m.reads
         /\ fnCount' = r.m.fnCount
         /\ result' = IF r.e # "" THEN result ELSE r.v
         /\ error' = IF r.e \in {StillRunning, Unmodelled} THEN "" ELSE r.e
         /\ pc' = CASE r.e = StillRunning -> "running"
                    [] r.e = Unmodelled -> "unmodelled"
                    [] OTHER -> "loop"
  /\ UNCHANGED <<program, inputProvider, i, tokens, currentTokens, parsed,
                 returned>>

\* line 1022: the form is evaluated in the root environment.  A form that
\* does not finish within MaxSteps leaves the driver at "running".
Evaluate ==
  /\ pc = "evaluate"
  /\ LET r == evaluate(parsed, RootEnv, Machine)
     IN  /\ heap' = r.m.heap
         /\ frames' = r.m.frames
         /\ outputBuffer' = r.m.out
         /\ reads' = r.m.reads
         /\ fnCount' = r.m.fnCount
         /\ result' = IF r.e # "" THEN result ELSE r.v
         /\ error' = IF r.e \in {StillRunning, Unmodelled} THEN "" ELSE r.e
         /\ pc' = CASE r.e = "" -> "loop"
                    [] r.e = StillRunning -> "running"
                    [] r.e = Unmodelled -> "unmodelled"
                    [] OTHER -> "thrown"
  /\ UNCHANGED <<program, inputProvider, i, tokens, currentTokens, parsed,
                 returned>>

\* lines 1020 and 1026: no token is left and the joined output is returned.
Return ==
  /\ pc = "loop"
  /\ currentTokens = <<>>
  /\ returned' = JoinLines(outputBuffer)
  /\ pc' = "returned"
  /\ UNCHANGED <<program, inputProvider, i, tokens, currentTokens, heap,
                 frames, outputBuffer, reads, fnCount, parsed, result, error>>

Next == Tokenize \/ Start \/ Read \/ Evaluate \/ Return

Spec == Init /\ [][Next]_vars

\* The host runs the loop of tokenize and the statements after it to their
\* end: a step of the lexer that can be taken is taken.
LiveSpec == Spec /\ WF_vars(Tokenize) /\ WF_vars(Start)


(***************************************************************************)
(* Properties.  Each is stated on the driver: on the step that lexes one   *)
(* more token, on the step that evaluates the top-level form `parsed`, or  *)
(* on the states between two top-level forms.                              *)
(***************************************************************************)
\* The step taken from this state ends as the outcome r of an evaluation
\* says: with r's value and output when r raised no error, and not with a
\* normal completion otherwise.
Yields(r) ==
  IF r.e = ""
  THEN pc' = "loop" /\ result' = r.v /\ outputBuffer' = r.m.out
  ELSE pc' # "loop"

\* The operands of the top-level form about to be evaluated.
TopOperands == Operands(parsed, Machine)

\* The top-level form about to be evaluated is a list with the head name.
AtForm(name) == pc = "evaluate" /\ OpName(parsed, Machine) = name

\* The token the reader consumed last: the whole form when it is an atom.
LastTokenRead == tokens[Len(tokens) - Len(currentTokens)]

\* C1: a string literal standing as a form (lexed as a token in double
\* quotes, read as the string between them) evaluates to that string: the
\* evaluation completes, raises no `Unknown symbol` and looks nothing up.
C1_StringLiteralEvaluatesToItself ==
  [][(pc = "evaluate" /\ IsString(parsed) /\ LastTokenRead[1] = "\"")
       => (pc' = "loop" /\ result' = parsed /\ error' = "")]_vars

\* C2: a `;` at which the lexer stands outside a string literal starts a
\* comment: the iteration pushes no token and moves the position to the end
\* of the line, wherever in the text the `;` is.
C2_SemicolonStartsComment ==
  [][(/\ pc = "tokenize"
      /\ i < Len(program)
      /\ skipWhitespace(program, i) < Len(program)
      /\ program[skipWhitespace(program, i) + 1] = ";")
       => (/\ tokens' = tokens
           /\ i' = SkipToEndOfLine(program, skipWhitespace(program, i)))]_vars

\* The function defun creates, as opposed to one made by lambda.
IsDefunFunction(v) == IsFunction(v) /\ "kind" \in DOMAIN v /\ v.kind = "defun"

\* The names the program has assigned so far by defun, setq or setf, in any
\* frame: lines 628, 647 and 689 record each of them, with the value
\* assigned last, in globalEnv.
AssignedNames ==
  {key \in DOMAIN frames[GlobalEnv] :
     key \notin DOMAIN InitialEnv \/ frames[GlobalEnv][key] # InitialEnv[key]}

\* The root frame binds key to the value assigned to it last.
RootHolds(key) ==
  key \in DOMAIN frames[RootEnv] /\ frames[RootEnv][key] = frames[GlobalEnv][key]

\* C3: between two top-level forms, every variable assigned by setq (or
\* setf on a symbol), in whatever frame the assignment ran, is bound to the
\* assigned value in the root frame, where the later top-level forms look
\* it up.
C3_AssignmentsReachRootFrame ==
  frames # <<>> =>
    \A key \in AssignedNames :
      ~IsDefunFunction(frames[GlobalEnv][key]) => RootHolds(key)

\* C4: between two top-level forms, every function defined by defun, at the
\* top level or in a nested frame, is bound under its name in the root
\* frame, where a call by name from a later top-level form, funcall and
\* mapcar find it.
C4_DefunsReachRootFrame ==
  frames # <<>> =>
    \A key \in AssignedNames :
      IsDefunFunction(frames[GlobalEnv][key]) => RootHolds(key)

\* C5: a program that creates a lambda in a nested frame, defines the helper
\* the lambda calls by a later top-level defun and then calls the lambda
\* with the argument 1 ends without an error, the call returning the
\* helper's value 1.
C5_LambdaCallsLaterHelper ==
  (program \in LateHelperPrograms /\ pc \in {"thrown", "returned"})
    => (pc = "returned" /\ result = Num(1))

\* The values the host's conditional takes for false: false, null,
\* undefined, the number 0, NaN and the empty string.
IsFalsy(v) ==
  \/ v = Bool(FALSE)
  \/ v = Null
  \/ v = Undefined
  \/ v = Num(0)
  \/ v = NaN
  \/ v = Str(<<>>)

\* The top-level form is (if test then) or (if test then else).
AtIf == AtForm("if") /\ Len(TopOperands) \in {2, 3}
\* Its test, evaluated in the root frame.
IfTest == evaluate(TopOperands[1], RootEnv, Machine)
\* Its operand k (2: then, 3: else), evaluated after the test.
IfBranch(k) == evaluate(TopOperands[k], RootEnv, IfTest.m)

\* The top-level form is (cond (test body...) clause...), the first clause
\* having a body.
AtCond ==
  /\ AtForm("cond")
  /\ Len(TopOperands) >= 1
  /\ IsArray(TopOperands[1])
  /\ Len(heap[TopOperands[1].r]) >= 2
\* The first clause, its test evaluated in the root frame, and its body
\* evaluated after the test.
FirstClause == heap[TopOperands[1].r]
CondTest == evaluate(FirstClause[1], RootEnv, Machine)
CondBody == EvalBodyOrNull(Tail(FirstClause), RootEnv, CondTest.m, Null)
\* The clauses after the first, tried after its test.
CondRest == CondLoop(TopOperands, 2, RootEnv, CondTest.m)

\* The top-level form is (if test then else), with both branches.
AtIfElse == AtIf /\ Len(TopOperands) = 3

\* C6, as claimed: in if and cond only false is falsy.  Whenever the test
\* evaluates to anything else (0, the empty list, a list, true, a function)
\* if evaluates its then-branch and cond selects the clause; when it
\* evaluates to false, if evaluates its else-branch and cond goes on to the
\* next clause.
C6_OnlyFalseIsFalsy ==
  [][/\ (AtIfElse /\ IfTest.e = "" /\ IfTest.v # Bool(FALSE))
          => Yields(IfBranch(2))
     /\ (AtIfElse /\ IfTest.e = "" /\ IfTest.v = Bool(FALSE))
          => Yields(IfBranch(3))
     /\ (AtCond /\ CondTest.e = "" /\ CondTest.v # Bool(FALSE))
          => Yields(CondBody)
     /\ (AtCond /\ CondTest.e = "" /\ CondTest.v = Bool(FALSE))
          => Yields(CondRest)]_vars

\* C6, amended: in if and cond the test is falsy exactly when it evaluates
\* to false, Null, the number 0, NaN or the empty string.  For every other
\* value (a non-zero number, the empty list, a list, true, a function, a
\* non-empty string) if evaluates its then-branch and cond selects the
\* clause; for a falsy value if evaluates its else-branch and cond goes on
\* to the next clause.
C6_HostFalsyValues ==
  [][/\ (AtIf /\ IfTest.e = "" /\ ~IsFalsy(IfTest.v))
          => Yields(IfBranch(2))
     /\ (AtIfElse /\ IfTest.e = "" /\ IsFalsy(IfTest.v))
          => Yields(IfBranch(3))
     /\ (AtCond /\ CondTest.e = "" /\ ~IsFalsy(CondTest.v))
          => Yields(CondBody)
     /\ (AtCond /\ CondTest.e = "" /\ IsFalsy(CondTest.v))
          => Yields(CondRest)]_vars

\* (if 0 10 20) has been evaluated and has taken its else-branch.
C6_ZeroTakesElse ==
  /\ program = IfProgram(<<"0">>)
  /\ pc = "loop"
  /\ tokens # <<>>
  /\ currentTokens = <<>>
  /\ result = Num(20)

\* C7: (if test then) without an else operand, the test evaluating to
\* false, returns Null and raises no error.
C7_IfWithoutElseReturnsNull ==
  [][(AtForm("if") /\ Len(TopOperands) = 2 /\ IfTest.e = ""
        /\ IfTest.v = Bool(FALSE))
       => (pc' = "loop" /\ result' = Null /\ error' = "")]_vars

RECURSIVE OrFirstTruthy(_, _, _), OrAnyTruthy(_, _, _), AndAllTruthy(_, _, _)
\* (or x...) as claimed, from the operand at k: the value of the first
\* operand that is not falsy, false when there is none.
OrFirstTruthy(args, k, m) ==
  IF k > Len(args) THEN EvOk(Bool(FALSE), m)
  ELSE LET r == evaluate(args[k], RootEnv, m)
       IN  IF r.e # "" \/ ~IsFalsy(r.v) THEN r
           ELSE OrFirstTruthy(args, k + 1, r.m)

\* (or x...) from the operand at k: true at the first operand that is not
\* falsy, false when there is none.
OrAnyTruthy(args, k, m) ==
  IF k > Len(args) THEN EvOk(Bool(FALSE), m)
  ELSE LET r == evaluate(args[k], RootEnv, m)
       IN  IF r.e # "" THEN r
           ELSE IF ~IsFalsy(r.v) THEN EvOk(Bool(TRUE), r.m)
           ELSE OrAnyTruthy(args, k + 1, r.m)

\* (and x...) from the operand at k: false at the first falsy operand, true
\* when there is none.
AndAllTruthy(args, k, m) ==
  IF k > Len(args) THEN EvOk(Bool(TRUE), m)
  ELSE LET r == evaluate(args[k], RootEnv, m)
       IN  IF r.e # "" THEN r
           ELSE IF IsFalsy(r.v) THEN EvOk(Bool(FALSE), r.m)
           ELSE AndAllTruthy(args, k + 1, r.m)

\* C8, as claimed: (or x1 ... xn) returns the value of the first operand
\* that evaluates truthy, that value itself, and false when none is truthy;
\* (and x1 ... xn) returns false on the first falsy operand and true
\* otherwise.
C8_OrReturnsFirstTruthyValue ==
  [][/\ AtForm("or") => Yields(OrFirstTruthy(TopOperands, 1, Machine))
     /\ AtForm("and") => Yields(AndAllTruthy(TopOperands, 1, Machine))]_vars

\* C8, amended: (or x1 ... xn) returns true when some operand evaluates
\* truthy and false when none does, never the operand's value;
\* (and x1 ... xn) returns false on the first falsy operand and true
\* otherwise.  Falsy are false, Null, the number 0, NaN and the empty
\* string.
C8_OrReturnsTrue ==
  [][/\ AtForm("or") => Yields(OrAnyTruthy(TopOperands, 1, Machine))
     /\ AtForm("and") => Yields(AndAllTruthy(TopOperands, 1, Machine))]_vars

\* (or 5) has been evaluated and has returned true, not 5.
C8_OrFiveIsTrue ==
  /\ program = <<"(", "o", "r", " ", "5", ")">>
  /\ pc = "loop"
  /\ tokens # <<>>
  /\ currentTokens = <<>>
  /\ result = Bool(TRUE)

\* The top-level form is (format stream fmt arg...).
AtFormat == AtForm("format") /\ Len(TopOperands) >= 2

\* The stream operand is written as the symbol t, which the reader turns
\* into true (line 139).
StreamWrittenAsT == TopOperands[1] = Bool(TRUE)

\* The values of its operands, evaluated left to right in the root frame.
FormatArgs == EvalEach(TopOperands, RootEnv, Machine, <<>>)

\* fmt with each %s or %d replaced by the printed form of the next argument.
FormatLine ==
  ReplaceDirectives(FormatArgs.v[2].s, SubSeq(FormatArgs.v, 3, Len(FormatArgs.v)),
                    0, FormatArgs.m.heap)

\* C9: (format t fmt arg...) with the stream written as the symbol t
\* appends exactly one line to the output buffer, fmt with each %s or %d
\* replaced by the printed form of the next argument, and returns that
\* line; with any other stream operand it appends nothing and returns
\* Null.
C9_FormatToTAppendsLine ==
  [][(AtFormat /\ FormatArgs.e = "" /\ IsString(FormatArgs.v[2]))
       => IF StreamWrittenAsT
          THEN /\ pc' = "loop"
               /\ outputBuffer' = Append(FormatArgs.m.out, Text(FormatLine))
               /\ result' = Str(FormatLine)
          ELSE /\ pc' = "loop"
               /\ outputBuffer' = FormatArgs.m.out
               /\ result' = Null]_vars

\* A clause head as C10 has it match the key: the symbol `otherwise`, the
\* symbol t (true, once read) or a list that contains the key.
ClauseHeadMatches(keys, key) ==
  \/ keys = Str(<<"o", "t", "h", "e", "r", "w", "i", "s", "e">>)
  \/ keys = Bool(TRUE)
  \/ IsArray(keys) /\ \E k \in 1..Len(heap[keys.r]) : heap[keys.r][k] = key

\* The top-level form is (case key clause...), every clause a non-empty list.
AtCase ==
  /\ AtForm("case")
  /\ Len(TopOperands) >= 1
  /\ \A k \in 2..Len(TopOperands) :
       IsArray(TopOperands[k]) /\ heap[TopOperands[k].r] # <<>>

\* Its key, evaluated in the root frame.
CaseKey == evaluate(TopOperands[1], RootEnv, Machine)

\* The clauses whose head matches the key.
MatchingClauses ==
  {k \in 2..Len(TopOperands) :
     ClauseHeadMatches(heap[TopOperands[k].r][1], CaseKey.v)}

\* The first of them.
FirstMatch == CHOOSE k \in MatchingClauses : \A j \in MatchingClauses : k <= j

\* C10: in (case key clause...) the first clause whose head is the symbol
\* `otherwise`, the symbol `t` or a list containing a value equal to the
\* key is the one whose body is evaluated, and the value of its last form
\* is returned.
C10_CaseSelectsFirstMatch ==
  [][(AtCase /\ CaseKey.e = "" /\ MatchingClauses # {})
       => Yields(EvalBodyOrNull(Tail(heap[TopOperands[FirstMatch].r]),
                                RootEnv, CaseKey.m, Null))]_vars

\* C11: the first error raised while lexing, reading or evaluating aborts
\* the run.  An error has been raised exactly when the run stands at
\* "thrown"; there the caller has received no output text, and no step is
\* left to take: no later form is read or evaluated, nothing more is
\* printed and the input provider is not called again.  A program that
\* fails after printing the line 1, with forms after the failing one that
\* would print or read, ends with that one line in the buffer and no call
\* of the input provider.
C11_FirstErrorAborts ==
  /\ (error # "") <=> (pc = "thrown")
  /\ pc = "thrown" => (returned = "" /\ ~ENABLED Next)
  /\ (pc = "thrown" /\ program \in AbortPrograms)
       => (outputBuffer = <<"1">> /\ reads = 0)

\* A form has failed after a line was printed, with tokens of later forms
\* still unread.
C11_FailedAfterOutput ==
  /\ pc = "thrown"
  /\ outputBuffer = <<"1">>
  /\ currentTokens # <<>>
  /\ error = "Unknown symbol: foo"

\* The messages that contain the complaint of `+` (line 150): the message
\* itself and the one the application wraps around it (line 999).
PlusMessages ==
  {"+: All arguments must be numbers",
   "Error in procedure +: +: All arguments must be numbers"}

\* The values of the operands of a top-level application of `+`.
PlusArgs == EvalEach(TopOperands, RootEnv, Machine, <<>>)

\* C12: the program (+ 1 "a") fails with a message that contains
\* `+: All arguments must be numbers`; and whenever `+` is applied to
\* operands of which one evaluates to something that is no number, the
\* application fails with that message.
C12_PlusRejectsNonNumbers ==
  [][/\ (AtForm("+") /\ program = <<"(", "+", " ", "1", " ", "\"", "a", "\"", ")">>)
          => (pc' = "thrown" /\ error' \in PlusMessages)
     /\ (AtForm("+") /\ PlusArgs.e = "" /\ ~AllNumbers(PlusArgs.v))
          => (pc' = "thrown" /\ error' \in PlusMessages)]_vars

\* The top-level form is a symbol: a string that does not evaluate to itself.
AtSymbol == pc = "evaluate" /\ IsString(parsed) /\ ~IsSelfEvaluating(parsed)

\* The top-level form is an application whose head is a symbol.
AtApplication ==
  /\ pc = "evaluate"
  /\ OpName(parsed, Machine) # ""
  /\ OpName(parsed, Machine) \notin SpecialForms

\* The built-in library or the program has bound the name in the root frame.
BoundInRoot(name) == name \in DOMAIN frames[RootEnv]

\* C13: a symbol that neither the built-in library nor the program has
\* bound in the frame of the lookup raises `Unknown symbol: s` when it is
\* evaluated, as a form of its own or as the head of an application such as
\* (foo 1).
C13_UnboundSymbolIsUnknown ==
  [][/\ (AtSymbol /\ ~BoundInRoot(Text(parsed.s)))
          => (pc' = "thrown"
              /\ error' = "Unknown symbol: " \o Text(parsed.s))
     /\ (AtApplication /\ ~BoundInRoot(OpName(parsed, Machine)))
          => (pc' = "thrown"
              /\ error' = "Unknown symbol: " \o OpName(parsed, Machine))]_vars

\* The function a top-level call applies, when the operator names a lambda
\* closure of the root frame.
CalledClosure == frames[RootEnv][OpName(parsed, Machine)]

AtLetClosureCall ==
  /\ AtApplication
  /\ BoundInRoot(OpName(parsed, Machine))
  /\ "kind" \in DOMAIN CalledClosure
  /\ CalledClosure.kind = "lambda"
  /\ CalledClosure.env # RootEnv

\* The variable a closure's body refers to, when its body is one symbol.
BodySymbol(fn) == Text(fn.body[1].s)

ReturnsItsVariable(fn) ==
  /\ Len(heap[fn.params.r]) = 0
  /\ Len(fn.body) = 1
  /\ IsString(fn.body[1]) /\ ~IsSelfEvaluating(fn.body[1])
  /\ BodySymbol(fn) \in DOMAIN frames[fn.env]

\* C14: a lambda created inside a let and returned from it still sees the
\* let-local bindings when it is called after the let has exited: a call of
\* a closure whose body is a variable of its frame yields the value that
\* variable has in the frame, whatever the root frame binds the name to, and
\* the last call of every program of LetClosurePrograms yields the 1 the
\* let bound a to.
C14_LambdaKeepsLetBindings ==
  [][/\ (AtLetClosureCall /\ ReturnsItsVariable(CalledClosure)
           /\ TopOperands = <<>>)
          => Yields([v |-> frames[CalledClosure.env][BodySymbol(CalledClosure)],
                     m |-> Machine, e |-> ""])
     /\ (pc = "evaluate" /\ program \in LetClosurePrograms
           /\ currentTokens = <<>>)
          => (pc' = "loop" /\ result' = Num(1))]_vars

\* the closure made in (let ((a 1)) (lambda () a)) was called after the
\* root frame had bound a to 9, and returned 1
C14_LetValueAfterExit ==
  /\ program \in LetClosurePrograms
  /\ pc = "loop" /\ currentTokens = <<>>
  /\ "a" \in DOMAIN frames[RootEnv] /\ frames[RootEnv]["a"] = Num(9)
  /\ result = Num(1)

\* The value of a step form of StepForms when a and b hold the numbers a and b.
StepValue(form, a, b) ==
  CASE form = <<"a">> -> a
    [] form = <<"b">> -> b
    [] OTHER -> a + b

\* The pair <<a, b>> after n turns of a loop whose step forms are A and B, all
\* step forms of a turn reading the values from before the turn.
RECURSIVE AfterTurns(_, _, _, _, _)
AfterTurns(A, B, n, a, b) ==
  IF n = 0 THEN <<Num(a), Num(b)>>
  ELSE AfterTurns(A, B, n - 1, StepValue(A, a, b), StepValue(B, a, b))

TurnsOf(N) == CASE N = <<"0">> -> 0 [] N = <<"1">> -> 1 [] OTHER -> 2

SwapOnce ==
  <<"(", "d", "o", " ", "(", "(", "a", " ", "1", " ", "b", ")", " ", "(",
    "b", " ", "2", " ", "a", ")", ")", " ", "(", "(", "=", " ", "a", " ",
    "2", ")", " ", "(", "p", "r", "i", "n", "t", " ", "a", ")", " ", "(",
    "p", "r", "i", "n", "t", " ", "b", ")", ")", ")">>

\* C15: a do loop evaluates all step forms of a turn against the values from
\* before the turn and assigns them together: (do ((a 1 b) (b 2 a)) ...) has
\* a = 2 and b = 1 after one turn, and the loops over the step forms a, b and
\* (+ a b) end with the values that parallel assignment gives after 0, 1 and
\* 2 turns.
C15_DoStepsInParallel ==
  [][/\ (pc = "evaluate" /\ program = SwapOnce)
          => (pc' = "loop" /\ outputBuffer' = <<"2", "1">>)
     /\ \A A \in StepForms, B \in StepForms, N \in TurnCounts :
          (pc = "evaluate" /\ program = DoProgram(A, B, N))
            => /\ pc' = "loop"
               /\ IsArray(result')
               /\ heap'[result'.r] = AfterTurns(A, B, TurnsOf(N), 1, 2)]_vars

\* (do ((a 1 b) (b 2 a) (k 0 (+ k 1))) ((= k 1) (list a b))) returned (2 1)
C15_SwappedAfterOneTurn ==
  /\ program = DoProgram(<<"b">>, <<"a">>, <<"1">>)
  /\ pc = "loop" /\ IsArray(result)
  /\ heap[result.r] = <<Num(2), Num(1)>>

\* The sequence s is the beginning of the sequence t.
IsPrefix(s, t) == Len(s) <= Len(t) /\ SubSeq(t, 1, Len(s)) = s

\* The top-level form applies the built-in operator created under name.
AtBuiltinCall(name) ==
  /\ AtForm(name)
  /\ BoundInRoot(name)
  /\ frames[RootEnv][name] = Builtin(name)

\* The operands of the top-level form, evaluated from the left.
OutputArgs == EvalEach(TopOperands, RootEnv, Machine, <<>>)

\* The step appends exactly one entry to the buffer the operands left.
AppendsOneEntry ==
  /\ pc' = "loop"
  /\ Len(outputBuffer') = Len(OutputArgs.m.out) + 1
  /\ IsPrefix(OutputArgs.m.out, outputBuffer')

\* C16: the output buffer is append-only and ordered. Every step keeps the
\* entries it finds, in their order; a call of print, prin1, exit or bye
\* whose operands evaluate appends exactly one entry after those of its
\* operands; and on success evaluateLisp returns the entries joined by
\* newlines, `10\n5\n24\n5` for the four prints of the arithmetic example.
C16_OutputIsAppendOnly ==
  [][/\ IsPrefix(outputBuffer, outputBuffer')
     /\ (AtBuiltinCall("print") /\ OutputArgs.e = "") => AppendsOneEntry
     /\ (AtBuiltinCall("prin1") /\ OutputArgs.e = "" /\ Len(TopOperands) = 1)
          => AppendsOneEntry
     /\ ((AtBuiltinCall("exit") \/ AtBuiltinCall("bye")) /\ OutputArgs.e = "")
          => (AppendsOneEntry
              /\ outputBuffer'[Len(outputBuffer')] = "Exiting Lisp interpreter")
     /\ (pc' = "returned" /\ tokens # <<>>)
          => (returned' = JoinLines(outputBuffer) /\ outputBuffer' = outputBuffer)
     /\ (pc' = "returned" /\ program = ExampleArithmetic)
          => returned' = "10\n5\n24\n5"]_vars

\* (prin1 5) (exit) (print 1 2) (bye) returned its four lines in the order
\* of the calls
C16_FourCallsFourLines ==
  /\ pc = "returned"
  /\ outputBuffer = <<"5", "Exiting Lisp interpreter", "1 2",
                      "Exiting Lisp interpreter">>
  /\ returned = "5\nExiting Lisp interpreter\n1 2\nExiting Lisp interpreter"

\* The place of the top-level form (setf place value), when it is a list.
PlaceCell == heap[TopOperands[1].r]

\* The top-level form is (setf (car L) v) or (setf (nth i L) v).
AtSetfPlace ==
  /\ AtForm("setf")
  /\ Len(TopOperands) = 2
  /\ IsArray(TopOperands[1])
  /\ \/ Len(PlaceCell) = 2 /\ PlaceCell[1] = Str(<<"c", "a", "r">>)
     \/ Len(PlaceCell) = 3 /\ PlaceCell[1] = Str(<<"n", "t", "h">>)

\* The value, and after it the operands of the place, as line 662 and line
\* 667 evaluate them.
SetfValue == evaluate(TopOperands[2], RootEnv, Machine)
SetfPlaceArgs == EvalEach(Tail(PlaceCell), RootEnv, SetfValue.m, <<>>)

SetfEvaluates == SetfValue.e = "" /\ SetfPlaceArgs.e = ""

\* L and i of the place, evaluated, and the elements of L before the
\* assignment.
SetfList == SetfPlaceArgs.v[Len(SetfPlaceArgs.v)]
SetfIndex == IF Len(PlaceCell) = 2 THEN Num(0) ELSE SetfPlaceArgs.v[1]
SetfElements == SetfPlaceArgs.m.heap[SetfList.r]

\* The place names a position of a list.
PlaceIsValid ==
  /\ IsArray(SetfList)
  /\ IsInt(SetfIndex)
  /\ SetfIndex.n >= 0 /\ SetfIndex.n < Len(SetfElements)

\* C17: (setf (car L) v) and (setf (nth i L) v) change the list L evaluates
\* to in place: the list holds v at the position and its other elements and
\* its length are as before, and every binding of the root frame that
\* referred to the list still refers to it; when the place is invalid (L is
\* no list, L is empty, i is no position of L) the form raises an error and
\* the list is as before.
C17_SetfMutatesInPlace ==
  [][(AtSetfPlace /\ SetfEvaluates /\ SetfIndex # NonInteger)
       => IF PlaceIsValid
          THEN /\ pc' = "loop"
               /\ result' = SetfValue.v
               /\ heap'[SetfList.r] =
                    [SetfElements EXCEPT ![SetfIndex.n + 1] = SetfValue.v]
               /\ \A name \in DOMAIN frames[RootEnv] :
                    frames[RootEnv][name] = SetfList
                      => frames'[RootEnv][name] = SetfList
          ELSE /\ pc' = "thrown"
               /\ IsArray(SetfList) => heap'[SetfList.r] = SetfElements]_vars

\* C18: every evaluation of (quote f) returns f as the reader read it: a
\* top-level quote form yields its operand, and the function of
\* QuotePrograms, whose body is '(1 2 3), returns (1 2 3) when it is called
\* a second time, also after setf was applied to the list its first call
\* returned.
C18_QuoteReturnsFormAsRead ==
  [][/\ (AtForm("quote") /\ Len(TopOperands) = 1)
          => Yields([v |-> TopOperands[1], m |-> Machine, e |-> ""])
     /\ (pc = "evaluate" /\ program \in QuotePrograms /\ currentTokens = <<>>)
          => /\ pc' = "loop"
             /\ outputBuffer' # <<>>
             /\ outputBuffer'[Len(outputBuffer')] = "(1 2 3)"]_vars

\* The tokens end inside the form they begin, depth lists of it being open.
RECURSIVE EndsInOpenList(_, _)
EndsInOpenList(toks, depth) ==
  IF toks = <<>> THEN depth > 0
  ELSE IF toks[1] = <<"(">> THEN EndsInOpenList(Tail(toks), depth + 1)
  ELSE IF toks[1] = <<"'">> THEN EndsInOpenList(Tail(toks), depth)
  ELSE IF toks[1] = <<")">>
  THEN depth > 1 /\ EndsInOpenList(Tail(toks), depth - 1)
  ELSE depth > 0 /\ EndsInOpenList(Tail(toks), depth)

\* The driver is about to read a form.
AtRead == pc = "loop" /\ currentTokens # <<>>

\* C19: when the tokens end while a list opened by ( has not been closed,
\* the reader raises `Missing closing parenthesis`, whatever the tokens of
\* the unclosed list are, a trailing quote included; a ) with no open list
\* raises `Unexpected closing parenthesis`.
C19_UnclosedListIsMissingParenthesis ==
  [][/\ (AtRead /\ EndsInOpenList(currentTokens, 0))
          => (pc' = "thrown" /\ error' = "Missing closing parenthesis")
     /\ (AtRead /\ currentTokens[1] = <<")">>)
          => (pc' = "thrown" /\ error' = "Unexpected closing parenthesis")]_vars

\* The first k operands of the top-level form, evaluated from the left.
PrefixRun(k) == EvalEach(SubSeq(TopOperands, 1, k), RootEnv, Machine, <<>>)

\* The operand at k is the first whose value is falsy (stopOnFalsy) or the
\* first whose value is truthy (otherwise).
FirstStopAt(k, stopOnFalsy) ==
  /\ PrefixRun(k).e = ""
  /\ \A j \in 1..(k - 1) : Truthy(PrefixRun(k).v[j]) = stopOnFalsy
  /\ Truthy(PrefixRun(k).v[k]) # stopOnFalsy

\* The step leaves the form with the effects of the run r and no others.
EffectsOf(r) ==
  /\ pc' = "loop"
  /\ outputBuffer' = r.m.out
  /\ reads' = r.m.reads
  /\ frames' = r.m.frames
  /\ heap' = r.m.heap

\* C20: (and x1 ... xn) evaluates its operands from the left and none after
\* the first that is falsy, (or x1 ... xn) none after the first that is
\* truthy: the output lines, the read-line calls and the assignments the
\* form leaves are those of the operands up to that one.
C20_AndOrShortCircuit ==
  [][/\ AtForm("and")
          => \A k \in 1..Len(TopOperands) :
               FirstStopAt(k, TRUE)
                 => (EffectsOf(PrefixRun(k)) /\ result' = Bool(FALSE))
     /\ AtForm("or")
          => \A k \in 1..Len(TopOperands) :
               FirstStopAt(k, FALSE)
                 => (EffectsOf(PrefixRun(k)) /\ result' = Bool(TRUE))]_vars

\* (and (print 1) (print 0) (print 2)) stopped after its second operand
C20_ThirdPrintSkipped ==
  /\ program = <<"(", "a", "n", "d", " ", "(", "p", "r", "i", "n", "t", " ",
                 "1", ")", " ", "(", "p", "r", "i", "n", "t", " ", "0", ")",
                 " ", "(", "p", "r", "i", "n", "t", " ", "2", ")", ")">>
  /\ pc = "loop" /\ currentTokens = <<>>
  /\ result = Bool(FALSE)
  /\ outputBuffer = <<"1", "0">>

\* C21: exit and bye append the line `Exiting Lisp interpreter` and return
\* the string exit without halting: the driver goes on with the tokens that
\* follow the call, every later top-level form is evaluated, and its output
\* stands after the farewell line.
C21_ExitDoesNotHalt ==
  [][/\ ((AtBuiltinCall("exit") \/ AtBuiltinCall("bye")) /\ OutputArgs.e = "")
          => /\ pc' = "loop"
             /\ result' = Str(<<"e", "x", "i", "t">>)
             /\ outputBuffer' = Append(OutputArgs.m.out, "Exiting Lisp interpreter")
             /\ currentTokens' = currentTokens
     /\ (pc' = "returned" /\ program = <<"(", "e", "x", "i", "t", ")", " ", "(",
                                         "p", "r", "i", "n", "t", " ", "1", ")">>)
          => returned' = "Exiting Lisp interpreter\n1"]_vars

\* (bye) (print 2) (read-line): the forms after bye ran, the print and the
\* read of a line
C21_FormsAfterByeRan ==
  /\ pc = "returned"
  /\ outputBuffer = <<"Exiting Lisp interpreter", "2">>
  /\ reads = 1

\* (do ((i 5 0)) ((= i 0)))
DoStepZero ==
  <<"(", "d", "o", " ", "(", "(", "i", " ", "5", " ", "0", ")", ")", " ",
      "(", "(", "=", " ", "i", " ", "0", ")", ")", ")">>

\* (do ((i 5 STEP) (k 0 (+ k 1))) ((= k 2) (print i))) for the text STEP, which
\* is " 0" for the step form 0, " 1" for the step form 1 and "" for none
DoWithStep(STEP) ==
  <<"(", "d", "o", " ", "(", "(", "i", " ", "5">> \o STEP
  \o <<")", " ", "(", "k", " ", "0", " ", "(", "+", " ", "k", " ", "1", ")",
      ")", ")", " ", "(", "(", "=", " ", "k", " ", "2", ")", " ", "(", "p",
      "r", "i", "n", "t", " ", "i", ")", ")", ")">>

\* C22: in a do loop a variable with an explicit step form takes the value
\* of that form after every turn, a literal such as 0 included, and only a
\* variable without a step form keeps its value: (do ((i 5 0)) ((= i 0)))
\* ends after one turn, and after two turns i is 0 with the step form 0, 5
\* with no step form.
C22_LiteralStepIsAssigned ==
  [][/\ (pc = "evaluate" /\ program = DoStepZero) => pc' = "loop"
     /\ (pc = "evaluate" /\ program = DoWithStep(<<" ", "0">>))
          => (pc' = "loop" /\ outputBuffer' = <<"0">>)
     /\ (pc = "evaluate" /\ program = DoWithStep(<<>>))
          => (pc' = "loop" /\ outputBuffer' = <<"5">>)]_vars

\* The printed forms of 0, 1, ..., n - 1, in that order.
CountLines(n) == [j \in 1..n |-> Text(NatChars(j - 1))]

\* The count operand of the top-level dotimes form, evaluated.
DotimesSpec == heap[TopOperands[1].r]
DotimesCount == evaluate(DotimesSpec[2], RootEnv, Machine)

AtDotimes ==
  /\ AtForm("dotimes")
  /\ Len(TopOperands) >= 1
  /\ IsArray(TopOperands[1])
  /\ Len(DotimesSpec) >= 2
  /\ IsString(DotimesSpec[1])
  /\ DotimesCount.e = ""

AtDefunCall ==
  /\ AtApplication
  /\ BoundInRoot(OpName(parsed, Machine))
  /\ "kind" \in DOMAIN CalledClosure
  /\ CalledClosure.kind = "defun"
  /\ CalledClosure.env = RootEnv

\* C24: a function of a top-level defun resolves the free names of its body
\* against the root frame as it is when the call is made, so that it can
\* call itself ((factorial 5) prints 120) and use functions and variables
\* that later top-level forms bound; the parameters of a call are bound in
\* a frame of the call, and the call leaves every binding of the root
\* frame as its operands left it.
C24_DefunSeesRootAtCallTime ==
  [][/\ (pc' = "returned" /\ program = ExampleFactorial) => returned' = "120"
     /\ (pc' = "returned" /\ program \in TopDefunPrograms) => returned' = "7"
     /\ (pc = "evaluate" /\ program \in TopDefunPrograms \cup {ExampleFactorial})
          => pc' = "loop"
     /\ (AtDefunCall /\ OutputArgs.e = "" /\ pc' = "loop")
          => frames'[RootEnv] = OutputArgs.m.frames[RootEnv]]_vars

\* (setq n 7) (defun f (n) (setq n (+ n 1)) n) (f 5) (print n): f returned 6
\* and the root frame still binds n to 7
C24_ParameterLeftRootBinding ==
  /\ program \in TopDefunPrograms
  /\ pc = "loop" /\ result = Num(6)
  /\ BoundInRoot("n") /\ frames[RootEnv]["n"] = Num(7)

\* C25: the lexer terminates on every source text: each iteration of the
\* loop of tokenize either raises `Unterminated string literal` or moves the
\* read position forward by at least one character and not beyond the end
\* of the text, and the loop is left in the end.
C25_LexerTerminates ==
  /\ [][(pc = "tokenize" /\ i < Len(program))
          => \/ pc' = "thrown" /\ error' = "Unterminated string literal"
             \/ pc' = "tokenize" /\ i' > i /\ i' <= Len(program)]_vars
  /\ <>(pc # "tokenize")

\* the text "\ of LexerTexts was read to its end, where the string is
\* found unterminated
C25_BackslashAtEnd ==
  /\ program = <<"\"", "\\">>
  /\ pc = "thrown"
  /\ error = "Unterminated string literal"
  /\ i = 0

\* (read-line) (print 1
ReadThenUnclosed ==
  <<"(", "r", "e", "a", "d", "-", "l", "i", "n", "e", ")", " ", "(", "p",
      "r", "i", "n", "t", " ", "1">>

\* (read-line) )
ReadThenStrayParen ==
  <<"(", "r", "e", "a", "d", "-", "l", "i", "n", "e", ")", " ", ")">>

ReaderErrors ==
  {"Missing closing parenthesis", "Unexpected closing parenthesis",
   "Unexpected EOF"}

\* C26: lexing is complete before any form is read or evaluated, and reading
\* is interleaved with evaluation.  While the lexer runs and when it raises
\* `Unterminated string literal`, no form has been read or evaluated and the
\* input provider has not been called; a reader error is raised by the read
\* of its own form, with the output and the input-provider calls of the
\* forms before it in place: after (read-line) the unclosed (print 1 and
\* the stray ) fail with one line read.
C26_LexingFirstReadingInterleaved ==
  /\ []((pc = "tokenize" \/ error = "Unterminated string literal")
          => /\ reads = 0 /\ outputBuffer = <<>>
             /\ heap = <<>> /\ frames = <<>> /\ currentTokens = <<>>
             /\ parsed = Undefined /\ result = Undefined)
  /\ []((pc = "thrown" /\ error \in ReaderErrors) <=>
          (pc = "thrown" /\ error # "Unterminated string literal"
             /\ FirstReaderError(tokens, <<<<>>>>) # ""
             /\ error = FirstReaderError(tokens, <<<<>>>>)))
  /\ [][/\ (AtRead /\ pc' = "thrown")
              => (error' \in ReaderErrors /\ reads' = reads
                  /\ outputBuffer' = outputBuffer /\ frames' = frames)
        /\ (pc' = "thrown" /\ inputProvider.present
              /\ program \in {ReadThenUnclosed, ReadThenStrayParen})
             => (reads' = 1 /\ result' = Str(<<"t">>)
                 /\ error' \in ReaderErrors)]_vars

\* (read-line) (print 1 with an input provider: the line was read before the
\* unclosed form was found
C26_LineReadBeforeReaderError ==
  /\ program = ReadThenUnclosed
  /\ pc = "thrown"
  /\ error = "Missing closing parenthesis"
  /\ reads = 1
=============================================================================
